---- MODULE Spec2Model ----
(***************************************************************************)
(* A model of the search aggregation pipeline of searchme:                 *)
(*   src/main.py  class ImprovedSearch  (impl = "main")                    *)
(*   src/app.py   class AppleSearch     (impl = "app")                     *)
(* Strings are sequences of one-character strings.  Each part of the       *)
(* pipeline has its own specification over the shared variables:           *)
(*   SpecRank   _rank_results as a function of (query, results)            *)
(*   SpecFetch  one call of _fetch_with_retry                              *)
(*   SpecCache  threads calling _get_from_cache / _save_to_cache           *)
(*   Spec       concurrent search() calls over the worker pool             *)
(***************************************************************************)
EXTENDS Integers, Sequences, FiniteSets, TLC

VARIABLES
    impl,          \* which program runs: "main" (main.py) or "app" (app.py)
    rk_pc,         \* _rank_results: "call" before, "ranked" after, "off" unused
    rk_query,      \* its argument query
    rk_results,    \* its argument results (objects keep their identity in id)
    rk_ranked,     \* its return value
    f_state,       \* _fetch_with_retry: its frame (pc, attempt, last_exception, ret)
    f_log,         \* the outcomes of the GETs it has issued, in order
    redis_client,  \* module global: "client", or None after the except branch
    redis_up,      \* whether the Redis server answers
    redis_store,   \* the server's content: key -> NoEntry or [val, expire_time]
    in_memory_cache, \* self.in_memory_cache: key -> NoEntry or [data, expire_time]
    cache_lock,    \* self.cache_lock: None when free, else the thread holding it
    now,           \* time.time()
    th,            \* the frame of each thread calling a cache method
    last_save,     \* history: per key, the latest save that took effect: [data, at, ttl]
    nsaves,        \* history: how many _save_to_cache calls were made
    calls,         \* the frame of each search() call
    tasks,         \* the futures: (call, engine) -> state of its _search_single_engine task
    written_by,    \* history: per key, the search call whose cache write is the latest
    cz_pc,         \* _categorize_result: "call" before, "returned" after, "off" unused
    cz_args,       \* its arguments [url, title, snippet]
    cz_ret,        \* its return value
    sg,            \* get_suggestions: how many calls were made, and the last call's
                   \* query, return value and effects (cache reads, GETs, cache writes)
    pr_pc,         \* _parse_results: "call" before, "over" after, "off" unused
    pr_html,       \* its argument html, as the document the parser reads
    pr_ret,        \* what it returns or raises
    pool_calls,    \* the executor seen alone: each search() call's place and counts
    pool_tasks,    \* its work items: (call, engine) -> state and the fetch loop's attempt
    work_queue     \* self.executor's queue of submitted work items, oldest first

rankVars == <<rk_pc, rk_query, rk_results, rk_ranked>>
fetchVars == <<f_state, f_log>>
storeVars == <<redis_client, redis_up, redis_store, in_memory_cache, cache_lock, now, last_save, nsaves>>
cacheVars == <<storeVars, th>>
searchVars == <<calls, tasks, written_by>>
categorizeVars == <<cz_pc, cz_args, cz_ret>>
suggestVars == <<sg>>
parseVars == <<pr_pc, pr_html, pr_ret>>
poolVars == <<pool_calls, pool_tasks, work_queue>>
sideVars == <<categorizeVars, suggestVars, parseVars, poolVars>>

vars == <<impl, rankVars, fetchVars, cacheVars, searchVars, sideVars>>

nonRankVars == <<fetchVars, cacheVars, searchVars, sideVars>>
nonFetchVars == <<rankVars, cacheVars, searchVars, sideVars>>
nonCacheVars == <<impl, rankVars, fetchVars, searchVars, sideVars>>
nonSearchVars == <<impl, rankVars, fetchVars, th, sideVars>>
nonCategorizeVars == <<rankVars, fetchVars, cacheVars, searchVars, suggestVars, parseVars,
                       poolVars>>
nonSuggestVars == <<impl, rankVars, fetchVars, searchVars, th, categorizeVars, parseVars,
                    poolVars>>
nonParseVars == <<rankVars, fetchVars, cacheVars, searchVars, categorizeVars, suggestVars,
                  poolVars>>
nonPoolVars == <<impl, rankVars, fetchVars, cacheVars, searchVars, categorizeVars,
                 suggestVars, parseVars>>
storeFixed == <<redis_client, redis_up, cache_lock, nsaves>>

None == "None"

(***************************************************************************)
(* Strings                                                                 *)
(***************************************************************************)
\* str.lower() on one character (the upper-case letters the inputs use)
LowerChar(c) == CASE c = "A" -> "a" [] c = "M" -> "m" [] c = "Z" -> "z" [] OTHER -> c

\* str.lower()
Lower(s) == [i \in 1..Len(s) |-> LowerChar(s[i])]

\* sub in s
IsSubstr(sub, s) == \E i \in 0..(Len(s) - Len(sub)) : SubSeq(s, i + 1, i + Len(sub)) = sub

RECURSIVE SplitFrom(_, _, _)
\* the words of s from position i on, cur being the word read so far
SplitFrom(s, i, cur) ==
    IF i > Len(s) THEN (IF cur = <<>> THEN <<>> ELSE <<cur>>)
    ELSE IF s[i] = " " THEN (IF cur = <<>> THEN <<>> ELSE <<cur>>) \o SplitFrom(s, i + 1, <<>>)
    ELSE SplitFrom(s, i + 1, Append(cur, s[i]))

\* str.split(): split on runs of whitespace, no empty words
Split(s) == SplitFrom(s, 1, <<>>)

\* the least position >= i of s holding a character of set cs, or Len(s)+1
RECURSIVE FindFirst(_, _, _)
FindFirst(s, i, cs) == IF i > Len(s) \/ s[i] \in cs THEN i ELSE FindFirst(s, i + 1, cs)

SchemeChars == {"h", "t", "p", "s", "a", "b", "w", "+", "-", "."}
SchemeStart == {"h", "t", "p", "s", "a", "b", "w"}

\* urlparse(url).netloc: drop a valid "scheme:", then if the rest starts with
\* "//" the netloc runs up to the next "/", "?" or "#"; otherwise it is empty
Netloc(url) ==
    LET c == FindFirst(url, 1, {":"})
        hasScheme == /\ c <= Len(url) /\ c > 1 /\ url[1] \in SchemeStart
                     /\ \A j \in 1..(c - 1) : url[j] \in SchemeChars
        rest == IF hasScheme THEN SubSeq(url, c + 1, Len(url)) ELSE url
    IN IF Len(rest) >= 2 /\ rest[1] = "/" /\ rest[2] = "/"
       THEN SubSeq(rest, 3, FindFirst(rest, 3, {"/", "?", "#"}) - 1)
       ELSE <<>>

\* len(domain.split('.'))
DotLabels(domain) == Cardinality({i \in 1..Len(domain) : domain[i] = "."}) + 1

\* sum(w for term in terms if term in text)
RECURSIVE SumHits(_, _, _)
SumHits(terms, text, w) ==
    IF terms = <<>> THEN 0
    ELSE (IF IsSubstr(Head(terms), text) THEN w ELSE 0) + SumHits(Tail(terms), text, w)

(***************************************************************************)
(* Result records.  A date string is represented by what the code reads    *)
(* of it: whether strptime(date, '%b %d, %Y') accepts it (fmt "display"),  *)
(* the day it then denotes, and whether the text contains '2024'.          *)
(***************************************************************************)
NoDate == [fmt |-> "none", day |-> 0, y2024 |-> FALSE]

Today == 1000

TrustedTlds == {<<".", "e", "d", "u">>, <<".", "g", "o", "v">>, <<".", "o", "r", "g">>}

\* main.py lines 255-265: the freshness points of a date
FreshnessMain(date, tday) ==
    IF date = NoDate THEN 0
    ELSE IF date.fmt # "display" THEN 0
    ELSE IF tday - date.day < 30 THEN 20
    ELSE IF tday - date.day < 90 THEN 10
    ELSE 0

\* main.py lines 236-271: the score of one result
ScoreMain(query, r, tday) ==
    LET query_terms == Split(Lower(query))
        title_lower == Lower(r.title)
        domain == Netloc(r.url)
        snippet_lower == Lower(r.snippet)
    IN (IF IsSubstr(Lower(query), title_lower) THEN 30 ELSE 0)
       + SumHits(query_terms, title_lower, 10)
       + (IF \E tld \in TrustedTlds : IsSubstr(tld, domain) THEN 15 ELSE 0)
       + (IF DotLabels(domain) = 2 THEN 5 ELSE 0)
       + SumHits(query_terms, snippet_lower, 5)
       + FreshnessMain(r.date, tday)
       + (IF r.category \in {"news", "official", "academic"} THEN 10 ELSE 0)

InfoBoxScore == 50

\* a score without the points for the whole query in the title
ScoreAppWithoutPhrase(query, r) ==
    LET keywords == Split(Lower(query))
    IN SumHits(keywords, Lower(r.title), 1) * 3 + SumHits(keywords, Lower(r.snippet), 1) * 2
       + (IF IsSubstr(Lower(query), Lower(r.snippet)) THEN 10 ELSE 0)
       + (IF r.date.y2024 THEN 10 ELSE 0)
       + (IF \E tld \in TrustedTlds : IsSubstr(tld, Netloc(r.url)) THEN 8 ELSE 0)
       + (IF r.category \in {"news", "official", "tech"} THEN 5 ELSE 0)

\* app.py lines 185-212: the score of one regular result
ScoreApp(query, r) ==
    LET keywords == Split(Lower(query))
        title_lower == Lower(r.title)
        snippet_lower == Lower(r.snippet)
        domain == Netloc(r.url)
    IN (IF IsSubstr(Lower(query), title_lower) THEN 20 ELSE 0)
       + (IF IsSubstr(Lower(query), snippet_lower) THEN 10 ELSE 0)
       + SumHits(keywords, title_lower, 1) * 3 + SumHits(keywords, snippet_lower, 1) * 2
       + (IF r.date.y2024 THEN 10 ELSE 0)
       + (IF \E tld \in TrustedTlds : IsSubstr(tld, domain) THEN 8 ELSE 0)
       + (IF r.category \in {"news", "official", "tech"} THEN 5 ELSE 0)

\* the scoring loop: every result gets its score assigned in place
Scored(im, query, results, tday) ==
    [i \in 1..Len(results) |->
        IF im = "main" THEN [results[i] EXCEPT !.score = ScoreMain(query, results[i], tday)]
        ELSE IF results[i].type = "info_box" THEN [results[i] EXCEPT !.score = InfoBoxScore]
        ELSE [results[i] EXCEPT !.score = ScoreApp(query, results[i])]]

RECURSIVE InsertDescUnstable(_, _)
\* a descending insertion that puts r before the results of equal score
InsertDescUnstable(sorted, r) ==
    IF sorted = <<>> THEN <<r>>
    ELSE IF Head(sorted).score > r.score THEN <<Head(sorted)>> \o InsertDescUnstable(Tail(sorted), r)
    ELSE <<r>> \o sorted

RECURSIVE SortedReversedAscending(_)
\* sorted(rs, key=score)[::-1]: descending, but equal scores in reverse input order
SortedReversedAscending(rs) ==
    IF rs = <<>> THEN <<>>
    ELSE InsertDescUnstable(SortedReversedAscending(SubSeq(rs, 1, Len(rs) - 1)), rs[Len(rs)])

RECURSIVE InsertDesc(_, _)
\* r goes after every result whose score is >= its own
InsertDesc(sorted, r) ==
    IF sorted = <<>> THEN <<r>>
    ELSE IF Head(sorted).score >= r.score THEN <<Head(sorted)>> \o InsertDesc(Tail(sorted), r)
    ELSE <<r>> \o sorted

RECURSIVE SortedByScoreDesc(_)
\* sorted(rs, key=lambda x: x.score, reverse=True): descending by score, and
\* (Python's sort being stable, also under reverse=True) equal scores in input order
SortedByScoreDesc(rs) ==
    IF rs = <<>> THEN <<>>
    ELSE InsertDesc(SortedByScoreDesc(SubSeq(rs, 1, Len(rs) - 1)), rs[Len(rs)])

\* [r for r in rs if r['type'] == t]
RECURSIVE OfType(_, _)
OfType(rs, t) ==
    IF rs = <<>> THEN <<>>
    ELSE (IF Head(rs).type = t THEN <<Head(rs)>> ELSE <<>>) \o OfType(Tail(rs), t)

\* a variant that returns the sorted regular results alone
FinalOrderRegularOnly(im, scored) == SortedByScoreDesc(OfType(scored, "regular"))

\* a variant that sorts everything by score, info boxes included
FinalOrderByScoreOnly(im, scored) == SortedByScoreDesc(scored)

\* the return statement: main.py line 273; app.py lines 215-222
FinalOrder(im, scored) ==
    IF im = "main" THEN SortedByScoreDesc(scored)
    ELSE OfType(scored, "info_box") \o SortedByScoreDesc(OfType(scored, "regular"))

\* _rank_results(query, results)
RankResults(im, query, results, tday) == FinalOrder(im, Scored(im, query, results, tday))

(***************************************************************************)
(* Inputs of the ranking specification.  Besides characters a string may   *)
(* hold a date token, the text of a date written out in one element.       *)
(***************************************************************************)
MaxResults == 3

Impls == {"main", "app"}

Q_m3 == <<"m", "3">>
Q_AM3 == <<"A", " ", "m", "3">>
Queries == {Q_m3, Q_AM3}

T_full == <<"A", " ", "M", "3", " ", "x">>
T_m3 == <<"m", "3">>
T_z == <<"Z">>
U_gov == <<"h", ":", "/", "/", "a", ".", "g", "o", "v">>
U_com == <<"h", ":", "/", "/", "w", ".", "b", ".", "c", "o", "m", "/", "p">>
U_rel == <<"/", "r">>
S_z == <<"z">>
S_terms == <<"m", "3", " ", "a">>
S_fresh == <<"m", "3", " ", "a", " ", "2026-10-30">>
S_raw == <<"z", " ", "5 Jan 2024">>

\* what _extract_date gives for S_fresh: 'Oct 30, 2026', six days before Today
D_fresh == [fmt |-> "display", day |-> Today - 6, y2024 |-> FALSE]
\* the raw match '5 Jan 2024', which strptime(.., '%b %d, %Y') rejects
D_raw == [fmt |-> "raw", day |-> 0, y2024 |-> TRUE]

Regular(title, url, snippet, category, date) ==
    [id |-> 0, type |-> "regular", title |-> title, url |-> url, snippet |-> snippet,
     category |-> category, date |-> date, score |-> 0]

\* the record _extract_info_box builds (app.py lines 54-59); it has no url,
\* snippet, category or date key, and the fields standing for them are never read
InfoBox(title) ==
    [id |-> 0, type |-> "info_box", title |-> title, url |-> <<>>, snippet |-> <<>>,
     category |-> "none", date |-> NoDate, score |-> 0]

\* results main.py's parser can emit (snippet never empty, date taken from the snippet)
CatalogMain ==
    << Regular(T_z, U_com, S_z, "general", NoDate),
       Regular(T_m3, U_com, S_terms, "general", NoDate),
       Regular(T_z, U_rel, S_raw, "general", D_raw),
       Regular(T_full, U_gov, S_fresh, "official", D_fresh),
       Regular(T_m3, U_com, S_z, "general", NoDate) >>

PoolMain == {CatalogMain[i] : i \in 1..Len(CatalogMain)}

\* results app.py's parser can emit (snippet may be empty, date from its own node)
CatalogApp ==
    << InfoBox(T_full),
       Regular(T_z, U_com, S_z, "general", NoDate),
       Regular(T_full, U_gov, S_terms, "official", D_raw),
       Regular(T_z, U_rel, <<>>, "general", D_fresh),
       Regular(T_m3, U_com, <<>>, "general", NoDate) >>

PoolApp == {CatalogApp[i] : i \in 1..Len(CatalogApp)}

Pool(im) == IF im = "main" THEN PoolMain ELSE PoolApp

\* the i-th object of a list gets identity i
WithIds(rs) == [i \in 1..Len(rs) |-> [rs[i] EXCEPT !.id = i]]

ResultLists(im) == UNION {{WithIds(f) : f \in [1..n -> Pool(im)]} : n \in 0..MaxResults}

(***************************************************************************)
(* _fetch_with_retry.  One GET ends in one of four ways the code tells     *)
(* apart: status 200, status 429 or 403 ("rate"), any other status         *)
(* ("other"), or a requests.exceptions.RequestException ("exc").           *)
(***************************************************************************)
Outcomes == {"200", "rate", "other", "exc"}

MainMaxRetries == 2
AppMaxRetries == 5

\* the default of the max_retries parameter, which no caller overrides
MaxRetries(im) == IF im = "main" THEN MainMaxRetries ELSE AppMaxRetries

\* the frame at entry: attempt 0, last_exception = None
FetchStart == [pc |-> "loop", attempt |-> 0, last_exception |-> None, ret |-> None]

FetchOff == [pc |-> "off", attempt |-> 0, last_exception |-> None, ret |-> None]

\* a loop body that does not return on status 200
FetchIterNoReturn(im, st, outcome) == [st EXCEPT !.attempt = st.attempt + 1]

\* one iteration of the for loop (main.py lines 118-142, app.py lines 132-148),
\* the GET of this attempt ending in outcome
FetchIter(im, st, outcome) ==
    IF outcome = "200" THEN [st EXCEPT !.pc = "returned", !.ret = "response"]
    ELSE IF outcome # "exc" THEN [st EXCEPT !.attempt = st.attempt + 1]
    ELSE IF im = "main"
         THEN [st EXCEPT !.last_exception = "RequestException", !.attempt = st.attempt + 1]
         ELSE IF st.attempt = MaxRetries(im) - 1
              THEN [st EXCEPT !.pc = "raised", !.ret = "RequestException"]
              ELSE [st EXCEPT !.attempt = st.attempt + 1]

\* the code after the loop: main.py lines 144-147, app.py line 149
FetchExit(im, st) ==
    IF im = "app" THEN [st EXCEPT !.pc = "returned", !.ret = None]
    ELSE IF st.last_exception # None
         THEN [st EXCEPT !.pc = "raised", !.ret = st.last_exception]
         ELSE [st EXCEPT !.pc = "raised", !.ret = "Exception"]

(***************************************************************************)
(* SpecFetch: one call of _fetch_with_retry                                *)
(***************************************************************************)
FetchInit ==
    /\ f_state = FetchStart
    /\ f_log = <<>>

FetchParked ==
    /\ f_state = FetchOff
    /\ f_log = <<>>

\* one attempt: the GET is issued and the loop body runs on its outcome
FetchAttempt ==
    /\ f_state.pc = "loop"
    /\ f_state.attempt < MaxRetries(impl)
    /\ \E outcome \in Outcomes :
          /\ f_log' = Append(f_log, outcome)
          /\ f_state' = FetchIter(impl, f_state, outcome)
    /\ UNCHANGED <<impl, nonFetchVars>>

\* the loop is over without a return
FetchExhausted ==
    /\ f_state.pc = "loop"
    /\ f_state.attempt = MaxRetries(impl)
    /\ f_state' = FetchExit(impl, f_state)
    /\ UNCHANGED <<impl, f_log, nonFetchVars>>

(***************************************************************************)
(* SpecRank: one call of _rank_results                                     *)
(***************************************************************************)
RankInit ==
    /\ rk_pc = "call"
    /\ rk_query \in Queries
    /\ rk_results \in ResultLists(impl)
    /\ rk_ranked = <<>>

RankParked ==
    /\ rk_pc = "off"
    /\ rk_query = <<>>
    /\ rk_results = <<>>
    /\ rk_ranked = <<>>

\* _rank_results: scores are assigned to the objects of the argument list in
\* place, the sorted list is new
RankCall ==
    /\ rk_pc = "call"
    /\ rk_results' = Scored(impl, rk_query, rk_results, Today)
    /\ rk_ranked' = RankResults(impl, rk_query, rk_results, Today)
    /\ rk_pc' = "ranked"
    /\ UNCHANGED <<impl, rk_query, nonRankVars>>

(***************************************************************************)
(* The cache store: _get_from_cache and _save_to_cache of main.py.         *)
(* A key is the text that _get_cache_key hashes, the hash being taken as   *)
(* injective.  Time advances in ticks of TickSeconds seconds.              *)
(***************************************************************************)
MaxTicks == 2
TickSeconds == 1800
DefaultExpire == 3600
SuggestExpire == 1800
MaxSaves == 2
\* two threads are enough to interleave a get with a save
Threads == {1, 2}
Pages == {1}

\* _get_cache_key(query, page): md5 of f"{query}_{page}"
CacheKey(query, page) == <<query, "_", page>>

Keys == {CacheKey(q, pg) : q \in Queries, pg \in Pages}

TTLs == {SuggestExpire, DefaultExpire}

Payloads == {<<>>, <<"x">>}

NoEntry == [data |-> <<>>, expire_time |-> -1]

NoSave == [data |-> <<>>, at |-> -1, ttl |-> 0]

\* json.dumps(data) and json.loads(text)
JsonDumps(data) == <<"json", data>>
JsonLoads(text) == text[2]

\* an expiry test that still serves the entry at its expiry time
NotExpiredInclusive(t, expire_time) == t <= expire_time

\* an expiry test under which every entry has expired
NeverFresh(t, expire_time) == FALSE

\* time.time() < expire_time (main.py line 90)
NotExpired(t, expire_time) == t < expire_time

\* threading.Lock() is created unlocked (main.py line 73)
Unlocked == 0

\* what a cache method hands back: None, a payload, or an exception raised
RetNone == [kind |-> "None", val |-> <<>>]
RetData(data) == [kind |-> "data", val |-> data]
RetRaise(e) == [kind |-> "raise", val |-> <<e>>]

\* a lock that does not exclude
LockNeverHeld(lock) == TRUE

\* `with self.cache_lock` may be entered (main.py lines 86, 101)
LockFree(lock) == lock = Unlocked

IdleFrame == [pc |-> "idle", op |-> None, key |-> <<>>, data |-> <<>>, ttl |-> 0,
              entry |-> NoEntry, ret |-> RetNone]

\* the Redis server's answer to GET: the value of a key that has not expired,
\* the empty text standing for nil (both are false in `if cached:`)
RedisValue(store, key, t) ==
    IF store[key] # NoEntry /\ t < store[key].expire_time THEN store[key].data ELSE <<>>

StoreInit ==
    /\ redis_client \in {None, "client"}
    /\ redis_up \in BOOLEAN
    /\ redis_store = [k \in Keys |-> NoEntry]
    /\ in_memory_cache = [k \in Keys |-> NoEntry]
    /\ cache_lock = Unlocked
    /\ now = 0
    /\ last_save = [k \in Keys |-> NoSave]
    /\ nsaves = 0

StoreParked ==
    /\ redis_client = None
    /\ redis_up = FALSE
    /\ redis_store = <<>>
    /\ in_memory_cache = <<>>
    /\ cache_lock = Unlocked
    /\ now = 0
    /\ last_save = <<>>
    /\ nsaves = 0

CacheInit == StoreInit /\ th = [t \in Threads |-> IdleFrame]

CacheParked == StoreParked /\ th = <<>>

\* time passes
Tick ==
    /\ now < MaxTicks * TickSeconds
    /\ now' = now + TickSeconds
    /\ UNCHANGED <<redis_client, redis_up, redis_store, in_memory_cache, cache_lock,
                   last_save, nsaves, th, nonCacheVars>>

\* a thread calls _get_from_cache(key)
GetCall(t) ==
    /\ th[t].pc = "idle"
    /\ \E k \in Keys :
          th' = [th EXCEPT ![t] = [IdleFrame EXCEPT !.pc = "get", !.op = "get", !.key = k]]
    /\ UNCHANGED <<storeVars, nonCacheVars>>

\* a thread calls _save_to_cache(key, data, expire_time)
SaveCall(t) ==
    /\ th[t].pc = "idle"
    /\ nsaves < MaxSaves
    /\ \E k \in Keys, data \in Payloads, ttl \in TTLs :
          th' = [th EXCEPT ![t] = [IdleFrame EXCEPT !.pc = "save", !.op = "save", !.key = k,
                                                    !.data = data, !.ttl = ttl]]
    /\ nsaves' = nsaves + 1
    /\ UNCHANGED <<redis_client, redis_up, redis_store, in_memory_cache, cache_lock,
                   now, last_save, nonCacheVars>>

\* main.py lines 81-84 and 94: the Redis branch of _get_from_cache
RedisGet(t) ==
    /\ th[t].pc = "get" /\ redis_client # None
    /\ LET cached == RedisValue(redis_store, th[t].key, now)
       IN th' = [th EXCEPT ![t] =
                   IF ~redis_up THEN [@ EXCEPT !.pc = "raised", !.ret = RetRaise("ConnectionError")]
                   ELSE [@ EXCEPT !.pc = "done",
                                  !.ret = IF cached # <<>> THEN RetData(JsonLoads(cached)) ELSE RetNone]]
    /\ UNCHANGED <<storeVars, nonCacheVars>>

\* main.py lines 98-99: the Redis branch of _save_to_cache
RedisSetex(t) ==
    /\ th[t].pc = "save" /\ redis_client # None
    /\ IF ~redis_up
       THEN /\ th' = [th EXCEPT ![t] = [@ EXCEPT !.pc = "raised", !.ret = RetRaise("ConnectionError")]]
            /\ UNCHANGED <<redis_store, last_save, nsaves>>
       ELSE /\ th' = [th EXCEPT ![t] = IdleFrame]
            /\ redis_store' = [redis_store EXCEPT ![th[t].key] =
                  [data |-> JsonDumps(th[t].data), expire_time |-> now + th[t].ttl]]
            /\ last_save' = [last_save EXCEPT ![th[t].key] =
                  [data |-> th[t].data, at |-> now, ttl |-> th[t].ttl]]
            /\ UNCHANGED nsaves
    /\ UNCHANGED <<redis_client, redis_up, in_memory_cache, cache_lock, now, nonCacheVars>>

\* `with self.cache_lock:` is entered (main.py lines 86 and 101)
Acquire(t) ==
    /\ th[t].pc \in {"get", "save"} /\ redis_client = None
    /\ LockFree(cache_lock)
    /\ cache_lock' = t
    /\ th' = [th EXCEPT ![t] = [@ EXCEPT !.pc = IF @ = "get" THEN "get_read" ELSE "save_write"]]
    /\ UNCHANGED <<redis_client, redis_up, redis_store, in_memory_cache, now,
                   last_save, nsaves, nonCacheVars>>

\* main.py lines 87-91: the entry is read and its expiry tested; an unexpired
\* entry is returned (the lock released), an expired one is to be deleted
GetRead(t) ==
    /\ th[t].pc = "get_read"
    /\ LET entry == in_memory_cache[th[t].key]
           fr == [th[t] EXCEPT !.entry = entry]
       IN IF entry # NoEntry /\ ~NotExpired(now, entry.expire_time)
          THEN /\ th' = [th EXCEPT ![t] = [fr EXCEPT !.pc = "get_del"]]
               /\ UNCHANGED cache_lock
          ELSE /\ th' = [th EXCEPT ![t] =
                     [fr EXCEPT !.pc = "done", !.entry = NoEntry,
                                !.ret = IF entry # NoEntry THEN RetData(entry.data) ELSE RetNone]]
               /\ cache_lock' = Unlocked
    /\ UNCHANGED <<redis_client, redis_up, redis_store, in_memory_cache, now,
                   last_save, nsaves, nonCacheVars>>

\* main.py lines 93-94: del self.in_memory_cache[key] (KeyError when the key
\* is gone), the lock is released, None is returned
GetDelete(t) ==
    /\ th[t].pc = "get_del"
    /\ IF in_memory_cache[th[t].key] = NoEntry
       THEN /\ th' = [th EXCEPT ![t] = [@ EXCEPT !.pc = "raised", !.ret = RetRaise("KeyError")]]
            /\ UNCHANGED in_memory_cache
       ELSE /\ th' = [th EXCEPT ![t] = [@ EXCEPT !.pc = "done", !.entry = NoEntry, !.ret = RetNone]]
            /\ in_memory_cache' = [in_memory_cache EXCEPT ![th[t].key] = NoEntry]
    /\ cache_lock' = Unlocked
    /\ UNCHANGED <<redis_client, redis_up, redis_store, now, last_save, nsaves, nonCacheVars>>

\* main.py line 102: the entry is written, the lock released, the call returns
SaveWrite(t) ==
    /\ th[t].pc = "save_write"
    /\ LET entry == [data |-> th[t].data, expire_time |-> now + th[t].ttl]
       IN /\ in_memory_cache' = [in_memory_cache EXCEPT ![th[t].key] = entry]
          /\ last_save' = [last_save EXCEPT ![th[t].key] =
                [data |-> th[t].data, at |-> now, ttl |-> th[t].ttl]]
    /\ cache_lock' = Unlocked
    /\ th' = [th EXCEPT ![t] = IdleFrame]
    /\ UNCHANGED <<redis_client, redis_up, redis_store, now, nsaves, nonCacheVars>>

\* the call returns (or its exception leaves it) and the thread is free again
CacheReturn(t) ==
    /\ th[t].pc \in {"done", "raised"}
    /\ th' = [th EXCEPT ![t] = IdleFrame]
    /\ UNCHANGED <<storeVars, nonCacheVars>>

(***************************************************************************)
(* search().  In main.py a call checks the cache, submits one task per     *)
(* engine to the executor, collects the tasks' results with as_completed,  *)
(* ranks, serializes, writes the cache and returns.  In app.py a call      *)
(* checks the cache, fetches with retry, parses, ranks, writes the cache   *)
(* and returns, all inside one try/except.                                 *)
(***************************************************************************)
\* two calls, numbered as they arrive, are enough to run one search after or
\* beside another
Calls == {1, 2}

MaxLapses == 1

\* the query of the searches
Asked == {Q_AM3}

\* self.search_urls (main.py lines 67-70)
SearchUrls == <<"google", "bing">>
Engines == 1..Len(SearchUrls)

\* `if len(results) >= 5: break` (main.py line 315)
Quota == 5

TaskIds == Calls \X Engines

\* how many results the page of a 200 response parses to
ResultCounts == {0, 3, 5}

\* what _parse_results returns for the page engine e gave to call c: n
\* SearchResult objects in page order, taken from a catalog
PageResults(im, c, e, n) ==
    LET catalog == IF im = "main" THEN CatalogMain ELSE CatalogApp
    IN [i \in 1..n |->
          [catalog[((i + e - 2) % Len(catalog)) + 1] EXCEPT !.id = 100 * c + 10 * e + i]]

\* display_url of to_dict: the url cut at 60 characters (main.py line 53)
DisplayUrl(url) ==
    IF Len(url) > 60 THEN SubSeq(url, 1, 60) \o <<".", ".", ".">> ELSE url

\* SearchResult.to_dict (main.py lines 49-60)
ToDict(r) ==
    [title |-> r.title, url |-> r.url, display_url |-> DisplayUrl(r.url),
     snippet |-> r.snippet, category |-> r.category, date |-> r.date,
     favicon |-> <<"favicons?domain=">> \o r.url, score |-> r.score,
     type |-> "regular"]

\* [r.to_dict() for r in ranked_results] (main.py line 326)
Serialize(ranked) == [i \in 1..Len(ranked) |-> ToDict(ranked[i])]

\* a future: its state and the list or the exception it holds
NoTask == [st |-> "none", result |-> <<>>, exc |-> None]

\* history: the place in a call's completed where its as_completed started
CollectMark(c) == <<c, 0>>

NoCall ==
    [pc |-> "idle", query |-> <<>>, page |-> 0, results |-> <<>>, errors |-> <<>>,
     pre |-> {}, finished |-> <<>>, consumed |-> <<>>, completed |-> <<>>,
     ret |-> RetNone, path |-> "none", saw |-> 0, live |-> FALSE,
     src |-> 0, wrote_at |-> -1]

KeyOf(c) == CacheKey(calls[c].query, calls[c].page)

\* what _get_from_cache(key) returns when it runs in one piece
GetFromCache(key) ==
    IF redis_client # None
    THEN IF ~redis_up THEN RetRaise("ConnectionError")
         ELSE LET cached == RedisValue(redis_store, key, now)
              IN IF cached # <<>> THEN RetData(JsonLoads(cached)) ELSE RetNone
    ELSE LET entry == in_memory_cache[key]
         IN IF entry # NoEntry /\ NotExpired(now, entry.expire_time)
            THEN RetData(entry.data) ELSE RetNone

\* in_memory_cache after _get_from_cache(key): an expired entry is deleted
AfterGetFromCache(key) ==
    IF redis_client = None /\ in_memory_cache[key] # NoEntry
       /\ ~NotExpired(now, in_memory_cache[key].expire_time)
    THEN [in_memory_cache EXCEPT ![key] = NoEntry]
    ELSE in_memory_cache

\* a cache check that serves whatever payload it finds
AnyPayloadHits(im, ret) == ret.kind = "data"

\* a cache check that never hits
NeverHit(im, ret) == FALSE

\* `if cached_results:` (main.py line 298): a payload that is not empty.
\* `if cache_key in self.cache` (app.py line 153): any payload
IsHit(im, ret) == ret.kind = "data" /\ (im = "app" \/ ret.val # <<>>)

SearchInit ==
    /\ calls = [c \in Calls |-> NoCall]
    /\ tasks = [t \in TaskIds |-> NoTask]
    /\ written_by = [k \in Keys |-> 0]

SearchParked ==
    /\ calls = <<>>
    /\ tasks = <<>>
    /\ written_by = <<>>

RECURSIVE FetchFold(_, _, _)
\* the for loop of _fetch_with_retry run on the outcomes of its GETs, which
\* it reads until it returns or raises
FetchFold(im, st, log) ==
    IF log = <<>> \/ st.pc # "loop" THEN st
    ELSE FetchFold(im, FetchIter(im, st, Head(log)), Tail(log))

\* a whole call of _fetch_with_retry, the GETs ending as log says
FetchRun(im, log) ==
    LET st == FetchFold(im, FetchStart, log)
    IN IF st.pc = "loop" THEN FetchExit(im, st) ELSE st

FetchLogs(im) == [1..MaxRetries(im) -> Outcomes]

\* the ways a call of _fetch_with_retry can end
FetchEndsMain == {FetchRun("main", log) : log \in FetchLogs("main")}
FetchEndsApp == {FetchRun("app", log) : log \in FetchLogs("app")}

Over(c) == calls[c].pc \in {"returned", "raised"}

\* the frame of a call that is over: its locals are gone, what it returned
\* or raised and what its cache check met are kept
Left(fr, pc, ret) ==
    [fr EXCEPT !.pc = pc, !.ret = ret, !.results = <<>>, !.errors = <<>>, !.pre = {},
               !.finished = <<>>, !.consumed = <<>>, !.completed = <<>>]

InFlight(c) == calls[c].pc \notin {"idle", "returned", "raised"}

\* time passes by the lifetime of a cache entry, which is longer than a
\* search can take (its GETs time out after 5 seconds, main.py line 128), so
\* the clock does not get there during one; it starts with the first search
Lapse ==
    /\ now < MaxLapses * DefaultExpire
    /\ \A c \in Calls : ~InFlight(c)
    /\ \E c \in Calls : calls[c].pc # "idle"
    /\ now' = now + DefaultExpire
    /\ UNCHANGED <<redis_store, in_memory_cache, last_save, storeFixed, searchVars,
                   nonSearchVars>>

\* a request thread runs search(query, page) up to the return of the cached
\* payload (main.py lines 295-299, app.py lines 152-154) or, the cache
\* having nothing, up to the end of the executor.submit calls (main.py lines
\* 305-308); app.py goes on to its fetch.  The tasks of two calls being
\* fewer than the 5 workers of the executor (main.py line 66), a worker takes
\* a submitted task at once
SearchCall(c) ==
    /\ calls[c].pc = "idle"
    /\ \A a \in Calls : a < c => calls[a].pc # "idle"
    /\ \E q \in Asked, pg \in Pages :
         LET key == CacheKey(q, pg)
             ret == IF impl = "main" THEN GetFromCache(key)
                    ELSE IF in_memory_cache[key] # NoEntry
                         THEN RetData(in_memory_cache[key].data) ELSE RetNone
             entered == [NoCall EXCEPT
                           !.query = q, !.page = pg,
                           !.saw = written_by[key],
                           !.live = /\ written_by[key] # 0
                                    /\ \/ impl = "app"
                                       \/ now < calls[written_by[key]].wrote_at
                                                   + DefaultExpire]
             submits == ret.kind # "raise" /\ ~IsHit(impl, ret) /\ impl = "main"
         IN /\ calls' = [calls EXCEPT ![c] =
                  IF ret.kind = "raise"
                  THEN [entered EXCEPT !.pc = "raised", !.ret = ret]
                  ELSE IF IsHit(impl, ret)
                  THEN [entered EXCEPT !.pc = "returned", !.ret = ret, !.path = "hit",
                                       !.src = written_by[key]]
                  ELSE IF impl = "main"
                  THEN [entered EXCEPT !.pc = "as_completed", !.path = "miss"]
                  ELSE [entered EXCEPT !.pc = "fetch", !.path = "miss"]]
            /\ in_memory_cache' = IF impl = "main" THEN AfterGetFromCache(key)
                                  ELSE in_memory_cache
            /\ tasks' = IF submits
                        THEN [t \in TaskIds |->
                                IF t[1] = c THEN [NoTask EXCEPT !.st = "running"]
                                ELSE tasks[t]]
                        ELSE tasks
    /\ UNCHANGED <<written_by, redis_store, now, last_save, storeFixed,
                   nonSearchVars>>

\* what _search_single_engine returns (main.py lines 275-291): the parsed
\* page of a 200 response, n results long, and [] when the fetch raised
EngineResults(t, fetched, n) ==
    IF fetched.pc = "returned" /\ fetched.ret # None
    THEN PageResults("main", t[1], t[2], n) ELSE <<>>

\* a _search_single_engine without its try/except: what the fetch raises
\* leaves it and is held by the future
SearchSingleEngineUnguarded(t, fetched, n) ==
    IF fetched.pc = "raised" THEN RetRaise(fetched.ret)
    ELSE RetData(EngineResults(t, fetched, n))

\* _search_single_engine (main.py lines 275-291) as its future sees it: every
\* exception of the try block is caught at line 288 and [] returned; a
\* response without text, or None, falls through to line 291 (n = 0 stands
\* for an empty text as for a page without results)
SearchSingleEngine(t, fetched, n) == RetData(EngineResults(t, fetched, n))

\* _search_single_engine runs to its return and the future is set: the
\* waiter of an as_completed that is already collecting is told.  The result
\* of a future whose call is over, which nothing can read, is left out
TaskRun(t) ==
    /\ tasks[t].st = "running"
    /\ \E out \in {SearchSingleEngine(t, fetched, n) :
                      fetched \in FetchEndsMain, n \in ResultCounts} :
          tasks' = [tasks EXCEPT ![t] =
                      IF Over(t[1]) THEN [NoTask EXCEPT !.st = "done"]
                      ELSE [st |-> "done",
                            result |-> IF out.kind = "data" THEN out.val ELSE <<>>,
                            exc |-> IF out.kind = "raise" THEN out.val[1] ELSE None]]
    /\ calls' = IF Over(t[1]) THEN calls
                ELSE [calls EXCEPT ![t[1]].completed = Append(@, t),
                                   ![t[1]].finished = IF calls[t[1]].pc = "collect"
                                                      THEN Append(@, t) ELSE @]
    /\ UNCHANGED <<written_by, storeVars, nonSearchVars>>

\* as_completed(futures) starts: the futures already done are set aside to
\* be yielded first, and a waiter is installed on the others
CollectStart(c) ==
    /\ calls[c].pc = "as_completed"
    /\ calls' = [calls EXCEPT ![c].pc = "collect",
                              ![c].pre = {t \in TaskIds : t[1] = c /\ tasks[t].st = "done"},
                              ![c].completed = Append(@, CollectMark(c))]
    /\ UNCHANGED <<tasks, written_by, storeVars, nonSearchVars>>

\* a loop that never breaks
QuotaNever(results) == FALSE

\* a quota test that lets the loop stop after any task
QuotaAlways(results) == TRUE

\* `if len(results) >= 5` (main.py line 315)
QuotaReached(results) == Len(results) >= Quota

\* the frame after the loop body ran on future t (main.py lines 312-319)
Consumed(fr, t) ==
    LET raises == tasks[t].exc # None
        results == IF raises THEN fr.results ELSE fr.results \o tasks[t].result
        consumed == Append(fr.consumed, t)
    IN [fr EXCEPT !.results = results, !.consumed = consumed,
                  !.errors = IF raises THEN Append(fr.errors, tasks[t].exc) ELSE fr.errors,
                  !.pre = fr.pre \ {t},
                  !.finished = IF t \in fr.pre THEN fr.finished ELSE Tail(fr.finished),
                  !.pc = IF (~raises /\ QuotaReached(results))
                            \/ Len(consumed) = Len(SearchUrls)
                         THEN "finish" ELSE "collect"]

\* as_completed yields the next future: one of those set aside at the start,
\* in the order of a set, and after them the others as they complete
Consume(c) ==
    /\ calls[c].pc = "collect"
    /\ \/ \E t \in calls[c].pre : calls' = [calls EXCEPT ![c] = Consumed(calls[c], t)]
       \/ /\ calls[c].pre = {}
          /\ calls[c].finished # <<>>
          /\ calls' = [calls EXCEPT ![c] = Consumed(calls[c], Head(calls[c].finished))]
    /\ UNCHANGED <<tasks, written_by, storeVars, nonSearchVars>>

\* the negation of `if not results and errors` (main.py line 321)
SavesResults(results, errors) == ~(results = <<>> /\ errors # <<>>)

\* _save_to_cache(key, data) when it runs in one piece, for call c
SaveToCache(c, key, data, ttl) ==
    /\ IF redis_client # None
       THEN /\ redis_store' = [redis_store EXCEPT ![key] =
                                 [data |-> JsonDumps(data), expire_time |-> now + ttl]]
            /\ UNCHANGED in_memory_cache
       ELSE /\ in_memory_cache' = [in_memory_cache EXCEPT ![key] =
                                     [data |-> data, expire_time |-> now + ttl]]
            /\ UNCHANGED redis_store
    /\ written_by' = [written_by EXCEPT ![key] = c]

\* the code after the loop (main.py lines 321-331); with the return the
\* futures and their results are out of reach
Finish(c) ==
    /\ calls[c].pc = "finish"
    /\ IF ~SavesResults(calls[c].results, calls[c].errors)
       THEN /\ calls' = [calls EXCEPT ![c] = Left(@, "returned", RetData(<<>>))]
            /\ UNCHANGED <<redis_store, in_memory_cache, written_by>>
       ELSE LET ranked == RankResults("main", calls[c].query, calls[c].results, Today)
                serialized == Serialize(ranked)
            IN IF redis_client # None /\ ~redis_up
               THEN /\ calls' = [calls EXCEPT ![c] =
                                   Left(@, "raised", RetRaise("ConnectionError"))]
                    /\ UNCHANGED <<redis_store, in_memory_cache, written_by>>
               ELSE /\ SaveToCache(c, KeyOf(c), serialized, DefaultExpire)
                    /\ calls' = [calls EXCEPT ![c] =
                                   [Left(@, "returned", RetData(serialized))
                                      EXCEPT !.src = c, !.wrote_at = now]]
    /\ tasks' = [t \in TaskIds |->
                   IF t[1] = c /\ tasks[t].st = "done" THEN [NoTask EXCEPT !.st = "done"]
                   ELSE tasks[t]]
    /\ UNCHANGED <<now, last_save, storeFixed, nonSearchVars>>

\* the call's own _fetch_with_retry (app.py lines 164-166): a response goes
\* on to be parsed; None, or an exception caught at lines 173-175, returns []
AppFetch(c) ==
    /\ calls[c].pc = "fetch"
    /\ \E fetched \in FetchEndsApp :
          calls' = [calls EXCEPT ![c] =
                IF fetched.pc = "returned" /\ fetched.ret # None
                THEN [@ EXCEPT !.pc = "parse"]
                ELSE [@ EXCEPT !.pc = "returned", !.ret = RetData(<<>>)]]
    /\ UNCHANGED <<tasks, written_by, storeVars, nonSearchVars>>

\* parse, rank, cache and return (app.py lines 168-171); _parse_results
\* raising (BeautifulSoup rejecting the markup, line 88) ends in the except
\* at lines 173-175: return []
AppFinish(c) ==
    /\ calls[c].pc = "parse"
    /\ \/ /\ calls' = [calls EXCEPT ![c].pc = "returned", ![c].ret = RetData(<<>>)]
          /\ UNCHANGED <<in_memory_cache, written_by>>
       \/ \E n \in ResultCounts :
             LET results == PageResults("app", c, 1, n)
                 ranked == RankResults("app", calls[c].query, results, Today)
             IN /\ in_memory_cache' = [in_memory_cache EXCEPT ![KeyOf(c)] =
                                         [data |-> ranked, expire_time |-> 0]]
                /\ written_by' = [written_by EXCEPT ![KeyOf(c)] = c]
                /\ calls' = [calls EXCEPT ![c].pc = "returned", ![c].src = c,
                                          ![c].wrote_at = now,
                                          ![c].ret = RetData(ranked)]
    /\ UNCHANGED <<tasks, redis_store, now, last_save, storeFixed,
                   nonSearchVars>>

(***************************************************************************)
(* _categorize_result.  main.py reads the domain and the text              *)
(* "<title> <snippet>"; app.py's method has no snippet parameter and reads *)
(* the domain and the title.                                               *)
(***************************************************************************)
\* main.py lines 171-179: the categories dict, in insertion order
CategoriesMain ==
    << [name |-> "news", keywords |->
          << <<"n", "e", "w", "s">>,
             <<"b", "r", "e", "a", "k", "i", "n", "g">>,
             <<"l", "a", "t", "e", "s", "t">>,
             <<"r", "e", "p", "o", "r", "t">>,
             <<"u", "p", "d", "a", "t", "e">> >>],
       [name |-> "shopping", keywords |->
          << <<"s", "h", "o", "p">>,
             <<"b", "u", "y">>,
             <<"p", "r", "i", "c", "e">>,
             <<"d", "e", "a", "l">>,
             <<"a", "m", "a", "z", "o", "n">>,
             <<"s", "t", "o", "r", "e">> >>],
       [name |-> "social", keywords |->
          << <<"f", "a", "c", "e", "b", "o", "o", "k">>,
             <<"t", "w", "i", "t", "t", "e", "r">>,
             <<"i", "n", "s", "t", "a", "g", "r", "a", "m">>,
             <<"l", "i", "n", "k", "e", "d", "i", "n">>,
             <<"r", "e", "d", "d", "i", "t">> >>],
       [name |-> "video", keywords |->
          << <<"y", "o", "u", "t", "u", "b", "e">>,
             <<"v", "i", "d", "e", "o">>,
             <<"w", "a", "t", "c", "h">>,
             <<"s", "t", "r", "e", "a", "m">>,
             <<"v", "i", "m", "e", "o">> >>],
       [name |-> "academic", keywords |->
          << <<"r", "e", "s", "e", "a", "r", "c", "h">>,
             <<"s", "t", "u", "d", "y">>,
             <<"p", "a", "p", "e", "r">>,
             <<"j", "o", "u", "r", "n", "a", "l">>,
             <<".", "e", "d", "u">> >>],
       [name |-> "official", keywords |->
          << <<"o", "f", "f", "i", "c", "i", "a", "l">>,
             <<"g", "o", "v">>,
             <<"o", "r", "g", "a", "n", "i", "z", "a", "t", "i", "o", "n">>,
             <<".", "g", "o", "v">>,
             <<".", "o", "r", "g">> >>],
       [name |-> "tech", keywords |->
          << <<"t", "e", "c", "h", "n", "o", "l", "o", "g", "y">>,
             <<"s", "o", "f", "t", "w", "a", "r", "e">>,
             <<"h", "a", "r", "d", "w", "a", "r", "e">>,
             <<"r", "e", "v", "i", "e", "w">>,
             <<"d", "i", "g", "i", "t", "a", "l">> >>] >>

\* app.py lines 69-78: the categories dict, in insertion order
CategoriesApp ==
    << [name |-> "news", keywords |->
          << <<"n", "e", "w", "s">>,
             <<"a", "r", "t", "i", "c", "l", "e">>,
             <<"b", "l", "o", "g">>,
             <<"p", "r", "e", "s", "s">> >>],
       [name |-> "shopping", keywords |->
          << <<"s", "h", "o", "p">>,
             <<"s", "t", "o", "r", "e">>,
             <<"b", "u", "y">>,
             <<"p", "r", "i", "c", "e">> >>],
       [name |-> "social", keywords |->
          << <<"f", "a", "c", "e", "b", "o", "o", "k", ".", "c", "o", "m">>,
             <<"t", "w", "i", "t", "t", "e", "r", ".", "c", "o", "m">>,
             <<"i", "n", "s", "t", "a", "g", "r", "a", "m", ".", "c", "o", "m">>,
             <<"l", "i", "n", "k", "e", "d", "i", "n", ".", "c", "o", "m">> >>],
       [name |-> "video", keywords |->
          << <<"y", "o", "u", "t", "u", "b", "e", ".", "c", "o", "m">>,
             <<"v", "i", "m", "e", "o", ".", "c", "o", "m">>,
             <<"w", "a", "t", "c", "h">>,
             <<"v", "i", "d", "e", "o">> >>],
       [name |-> "academic", keywords |->
          << <<"e", "d", "u">>,
             <<"a", "c", "a", "d", "e", "m", "i", "c">>,
             <<"r", "e", "s", "e", "a", "r", "c", "h">>,
             <<"s", "t", "u", "d", "y">> >>],
       [name |-> "official", keywords |->
          << <<"g", "o", "v">>,
             <<"o", "f", "f", "i", "c", "i", "a", "l">>,
             <<"o", "r", "g", "a", "n", "i", "z", "a", "t", "i", "o", "n">> >>],
       [name |-> "forums", keywords |->
          << <<"r", "e", "d", "d", "i", "t", ".", "c", "o", "m">>,
             <<"q", "u", "o", "r", "a", ".", "c", "o", "m">>,
             <<"f", "o", "r", "u", "m">>,
             <<"d", "i", "s", "c", "u", "s", "s", "i", "o", "n">> >>],
       [name |-> "tech", keywords |->
          << <<"t", "e", "c", "h">>,
             <<"g", "a", "d", "g", "e", "t">>,
             <<"r", "e", "v", "i", "e", "w">> >>] >>

Categories(im) == IF im = "main" THEN CategoriesMain ELSE CategoriesApp

\* any(keyword in s for keyword in keywords)
AnyIn(keywords, s) == \E i \in 1..Len(keywords) : IsSubstr(keywords[i], s)

RECURSIVE FirstCategory(_, _, _)
\* the loop over categories.items(): the first category one of whose keywords
\* is in the domain or in the text, 'general' when the loop ends
FirstCategory(categories, domain, text) ==
    IF categories = <<>> THEN "general"
    ELSE IF \/ AnyIn(Head(categories).keywords, domain)
            \/ AnyIn(Head(categories).keywords, text)
         THEN Head(categories).name
         ELSE FirstCategory(Tail(categories), domain, text)

\* the text the keywords are looked up in: main.py line 169, app.py line 82
CategorizeText(im, title, snippet) ==
    IF im = "main" THEN Lower(title) \o <<" ">> \o Lower(snippet) ELSE Lower(title)

\* _categorize_result(url, title, snippet); app.py's takes (url, title) only
CategorizeResult(im, url, title, snippet) ==
    FirstCategory(Categories(im), Lower(Netloc(url)), CategorizeText(im, title, snippet))

U_path == <<"h", ":", "/", "/", "z", ".", "c", "o", "m", "/", "n", "e", "w", "s">>
U_reddit == <<"h", ":", "/", "/", "r", "e", "d", "d", "i", "t", ".", "c", "o", "m">>
U_amazon == <<"h", ":", "/", "/", "A", "M", "A", "Z", "o", "n", ".", "c", "o", "m", "/">>
T_buynews == <<"b", "u", "y", " ", "n", "e", "w", "s">>
T_watch == <<"w", "a", "t", "c", "h">>
T_amazon == <<"A", "M", "A", "Z", "o", "n">>
S_latest == <<"l", "a", "t", "e", "s", "t">>
S_review == <<"r", "e", "v", "i", "e", "w">>

CzUrls == {U_com, U_gov, U_rel, U_path, U_reddit, U_amazon}
CzTitles == {T_z, T_buynews, T_watch, T_amazon}
CzSnippets == {<<>>, S_z, S_latest, S_review}

NoArgs == [url |-> <<>>, title |-> <<>>, snippet |-> <<>>]

CategorizeInit ==
    /\ cz_pc = "call"
    /\ cz_args \in [url : CzUrls, title : CzTitles, snippet : CzSnippets]
    /\ cz_ret = None

CategorizeParked == cz_pc = "off" /\ cz_args = NoArgs /\ cz_ret = None

CategorizeCall ==
    /\ cz_pc = "call"
    /\ cz_ret' = CategorizeResult(impl, cz_args.url, cz_args.title, cz_args.snippet)
    /\ cz_pc' = "returned"
    /\ UNCHANGED <<impl, cz_args, nonCategorizeVars>>

(***************************************************************************)
(* get_suggestions.  main.py: length test, cache check, one call of        *)
(* _fetch_with_retry, cache write (lines 333-362).  app.py: the fetch      *)
(* alone (lines 225-236).  The cache methods run in one piece here.        *)
(***************************************************************************)
MaxSuggestCalls == 2
MaxSuggestLapses == 1

SuggestQueries == {<<>>, <<"a">>, <<"a", "m">>, Q_m3}

\* cache_key = f"suggest_{query}" (main.py line 338)
SuggestKey(query) == <<"suggest_", query>>

SuggestKeys == {SuggestKey(q) : q \in SuggestQueries}

\* the lists json.loads(response.text)[1] can give
SuggestLists == {<<>>, <<"s">>}

NoSuggest == [n |-> 0, query |-> <<>>, ret |-> RetNone, effects |-> <<>>]

SuggestInit ==
    /\ redis_client \in {None, "client"}
    /\ redis_up \in BOOLEAN
    /\ redis_client = None => ~redis_up
    /\ impl = "app" => redis_client = None
    /\ redis_store = [k \in SuggestKeys |-> NoEntry]
    /\ in_memory_cache = [k \in SuggestKeys |-> NoEntry]
    /\ cache_lock = Unlocked
    /\ now = 0
    /\ last_save = <<>>
    /\ nsaves = 0
    /\ th = <<>>
    /\ sg = NoSuggest

SuggestParked == sg = NoSuggest

\* `if not query or len(query) < 2` (main.py line 335)
TooShort(query) == query = <<>> \/ Len(query) < 2

\* main.py lines 344-362: the fetch, the parse of the body and the cache
\* write; every exception ends in `return []`
SuggestFetchMain(query, key, end, bad, list) ==
    IF end.pc = "returned" /\ end.ret = "response" /\ ~bad
    THEN /\ IF redis_client # None
            THEN /\ redis_store' = [redis_store EXCEPT ![key] =
                        [data |-> JsonDumps(list), expire_time |-> now + SuggestExpire]]
                 /\ UNCHANGED in_memory_cache
            ELSE /\ in_memory_cache' = [in_memory_cache EXCEPT ![key] =
                        [data |-> list, expire_time |-> now + SuggestExpire]]
                 /\ UNCHANGED redis_store
         /\ sg' = [n |-> sg.n + 1, query |-> query, ret |-> RetData(list),
                   effects |-> <<"cache_get", "GET", "cache_set">>]
    ELSE /\ in_memory_cache' = AfterGetFromCache(key)
         /\ UNCHANGED redis_store
         /\ sg' = [n |-> sg.n + 1, query |-> query, ret |-> RetData(<<>>),
                   effects |-> <<"cache_get", "GET">>]

\* main.py lines 333-362
SuggestMain(query) ==
    IF TooShort(query)
    THEN /\ sg' = [n |-> sg.n + 1, query |-> query, ret |-> RetData(<<>>), effects |-> <<>>]
         /\ UNCHANGED <<redis_store, in_memory_cache>>
    ELSE LET key == SuggestKey(query)
             cached == GetFromCache(key)
         IN IF cached.kind = "raise" \/ IsHit("main", cached)
            THEN /\ sg' = [n |-> sg.n + 1, query |-> query, ret |-> cached,
                           effects |-> <<"cache_get">>]
                 /\ UNCHANGED <<redis_store, in_memory_cache>>
            ELSE \E end \in FetchEndsMain, bad \in BOOLEAN, list \in SuggestLists :
                    SuggestFetchMain(query, key, end, bad, list)

\* app.py lines 225-236: no length test and no cache
SuggestApp(query) ==
    /\ \E end \in FetchEndsApp, bad \in BOOLEAN, list \in SuggestLists :
          sg' = [n |-> sg.n + 1, query |-> query,
                 ret |-> IF end.pc = "returned" /\ end.ret = "response" /\ ~bad
                         THEN RetData(list) ELSE RetData(<<>>),
                 effects |-> <<"GET">>]
    /\ UNCHANGED <<redis_store, in_memory_cache>>

\* one call get_suggestions(query)
SuggestCall ==
    /\ sg.n < MaxSuggestCalls
    /\ \E query \in SuggestQueries :
          IF impl = "main" THEN SuggestMain(query) ELSE SuggestApp(query)
    /\ UNCHANGED <<now, last_save, storeFixed, nonSuggestVars>>

\* time passes between two calls: the lifetime of a suggestion entry
SuggestLapse ==
    /\ sg.n > 0
    /\ now < MaxSuggestLapses * SuggestExpire
    /\ now' = now + SuggestExpire
    /\ UNCHANGED <<sg, redis_store, in_memory_cache, last_save, storeFixed, nonSuggestVars>>

(***************************************************************************)
(* _parse_results.  The html is represented by what the parser reads of    *)
(* it: whether BeautifulSoup accepts the markup, the info box node         *)
(* (app.py), and the result containers in document order.  Of a container  *)
(* the code reads the heading, the href of its first link, the snippet     *)
(* node and (app.py) the date node.  A node is <<>> when absent and        *)
(* <<text>> when present.                                                  *)
(***************************************************************************)
MaxDivs == 2

NoNode == <<>>
Node(text) == <<text>>

\* get_text(strip=True): the text without its leading and trailing whitespace
Strip(s) ==
    LET inked == {i \in 1..Len(s) : s[i] # " "}
    IN IF inked = {} THEN <<>>
       ELSE SubSeq(s, CHOOSE i \in inked : \A j \in inked : i <= j,
                      CHOOSE i \in inked : \A j \in inked : j <= i)

\* main.py lines 208-209: url.split('/url?q=')[1].split('&')[0] for a url that
\* starts with '/url?q=' (one token here)
UnwrapUrl(url) ==
    IF url # <<>> /\ url[1] = "/url?q="
    THEN SubSeq(url, 2, FindFirst(url, 2, {"/url?q=", "&"}) - 1)
    ELSE url

\* _extract_date (main.py lines 149-164) on the date tokens of the inputs: the
\* day-month-year pattern is tried first and its match, which strptime with
\* '%Y-%m-%d' rejects, is kept as it is; an ISO date is reformatted
ExtractDate(snippet) ==
    IF \E i \in 1..Len(snippet) : snippet[i] = "5 Jan 2024" THEN D_raw
    ELSE IF \E i \in 1..Len(snippet) : snippet[i] = "2026-10-30" THEN D_fresh
    ELSE NoDate

\* main.py lines 196-224: one pass of the loop body over the i-th container;
\* an exception raised in the try block is caught and the container skipped
ParseDivMain(i, div) ==
    IF div.fails \/ div.heading = NoNode \/ div.href = NoNode \/ div.href[1] = <<>> THEN <<>>
    ELSE LET title == Strip(div.heading[1])
             url == UnwrapUrl(div.href[1])
             snippet == IF div.snippet # NoNode THEN Strip(div.snippet[1]) ELSE <<>>
         IN IF title # <<>> /\ url # <<>> /\ snippet # <<>>
            THEN << [Regular(title, url, snippet,
                             CategorizeResult("main", url, title, snippet),
                             ExtractDate(snippet)) EXCEPT !.id = i] >>
            ELSE <<>>

\* app.py lines 96-126: one pass of the loop body over the i-th container
\* (display_url and favicon, which are functions of url, are left out)
ParseDivApp(i, div) ==
    IF div.fails THEN <<>>
    ELSE LET snippet == IF div.snippet # NoNode THEN div.snippet[1] ELSE <<>>
         IN IF div.href = NoNode \/ div.href[1] = <<>> \/ div.heading = NoNode THEN <<>>
            ELSE << [Regular(div.heading[1], div.href[1], snippet,
                             CategorizeResult("app", div.href[1], div.heading[1], <<>>),
                             IF div.date # NoNode THEN D_raw ELSE NoDate)
                     EXCEPT !.id = i] >>

RECURSIVE ParseDivs(_, _, _)
\* the loop over the containers from the i-th on
ParseDivs(im, divs, i) ==
    IF i > Len(divs) THEN <<>>
    ELSE (IF im = "main" THEN ParseDivMain(i, divs[i]) ELSE ParseDivApp(i, divs[i]))
         \o ParseDivs(im, divs, i + 1)

\* _extract_info_box (app.py lines 42-62): None when there is no info box
\* node or when reading it raises
ExtractInfoBox(doc) == IF doc.info_box = "found" THEN <<InfoBox(T_full)>> ELSE <<>>

\* _parse_results(html).  BeautifulSoup(html, 'html.parser') raises on markup
\* the parser rejects: main.py calls it inside its try (lines 191-192,
\* 226-227), app.py outside of any (line 88)
ParseResults(im, doc) ==
    IF im = "main"
    THEN IF doc.soup_ok THEN RetData(ParseDivs(im, doc.divs, 1)) ELSE RetData(<<>>)
    ELSE IF doc.soup_ok THEN RetData(ExtractInfoBox(doc) \o ParseDivs(im, doc.divs, 1))
         ELSE RetRaise("ParserRejectedMarkup")

U_wrapped == <<"/url?q=", "/", "r", "&", "s">>
S_blank == <<" ">>

Headings == {NoNode, Node(T_z)}
Hrefs == {NoNode, Node(U_com), Node(U_wrapped)}
SnippetNodes == {NoNode, Node(S_blank), Node(S_raw)}
\* the date node is read by app.py only
DateNodes(im) == IF im = "main" THEN {NoNode} ELSE {NoNode, Node(<<"5 Jan 2024">>)}

\* a container with every node, during whose pass an exception is raised
FailingDiv ==
    [heading |-> Node(T_z), href |-> Node(U_com), snippet |-> Node(S_raw),
     date |-> NoNode, fails |-> TRUE]

Divs(im) ==
    [heading : Headings, href : Hrefs, snippet : SnippetNodes, date : DateNodes(im),
     fails : {FALSE}] \cup {FailingDiv}

\* a page whose markup the parser rejects
RejectedDoc == [soup_ok |-> FALSE, info_box |-> "none", divs |-> <<>>]

Docs(im) ==
    {RejectedDoc} \cup
    UNION {[soup_ok : {TRUE}, info_box : {"none", "found", "fails"},
            divs : [1..n -> Divs(im)]] : n \in 0..MaxDivs}

ParseInit ==
    /\ pr_pc = "call"
    /\ pr_html \in Docs(impl)
    /\ pr_ret = RetNone

ParseParked == pr_pc = "off" /\ pr_html = <<>> /\ pr_ret = RetNone

ParseCall ==
    /\ pr_pc = "call"
    /\ pr_ret' = ParseResults(impl, pr_html)
    /\ pr_pc' = "over"
    /\ UNCHANGED <<impl, pr_html, nonParseVars>>

(***************************************************************************)
(* The executor of main.py seen alone: ThreadPoolExecutor(max_workers=5),  *)
(* made once in __init__ (line 66) and shared by every search() call.  A   *)
(* submitted work item waits in the queue until a worker is free; a worker *)
(* runs _search_single_engine to its end, the GETs of _fetch_with_retry    *)
(* one at a time.  A result list is kept by its length, which is drawn     *)
(* when the list is read, the cache by whether the check hits.             *)
(***************************************************************************)
\* ThreadPoolExecutor(max_workers=5) (main.py line 66)
MaxWorkers == 5

\* three calls submit more work items than there are workers
MaxPoolCalls == 3

PoolCalls == 1..MaxPoolCalls

PoolTaskIds == PoolCalls \X Engines

NoPoolCall == [pc |-> "idle", got |-> 0, consumed |-> {}]

NoPoolTask == [st |-> "none", attempt |-> 0]

PoolInit ==
    /\ pool_calls = [c \in PoolCalls |-> NoPoolCall]
    /\ pool_tasks = [t \in PoolTaskIds |-> NoPoolTask]
    /\ work_queue = <<>>

PoolParked ==
    /\ pool_calls = <<>>
    /\ pool_tasks = <<>>
    /\ work_queue = <<>>

PoolOver(c) == pool_calls[c].pc \in {"returned", "raised"}

\* the work items a worker is running
Running == {t \in PoolTaskIds : pool_tasks[t].st = "running"}

\* search() up to the return of a cached payload or, on a miss, to the end
\* of the executor.submit calls (main.py lines 295-308): one work item per
\* search url joins the queue, in the order of self.search_urls.
\* redis_client.get raises when the server does not answer (line 82)
PoolSearch(c) ==
    /\ pool_calls[c].pc = "idle"
    /\ \A a \in PoolCalls : a < c => pool_calls[a].pc # "idle"
    /\ IF redis_client # None /\ ~redis_up
       THEN /\ pool_calls' = [pool_calls EXCEPT ![c].pc = "raised"]
            /\ UNCHANGED <<pool_tasks, work_queue>>
       ELSE \E hit \in BOOLEAN :
              IF hit
              THEN /\ pool_calls' = [pool_calls EXCEPT ![c].pc = "returned"]
                   /\ UNCHANGED <<pool_tasks, work_queue>>
              ELSE /\ pool_calls' = [pool_calls EXCEPT ![c].pc = "collect"]
                   /\ pool_tasks' = [t \in PoolTaskIds |->
                                       IF t[1] = c THEN [NoPoolTask EXCEPT !.st = "queued"]
                                       ELSE pool_tasks[t]]
                   /\ work_queue' = work_queue \o [e \in Engines |-> <<c, e>>]
    /\ UNCHANGED nonPoolVars

\* a worker that is free takes the oldest work item and enters
\* _search_single_engine and _fetch_with_retry (main.py lines 275-278, 116)
WorkerTake ==
    /\ work_queue # <<>>
    /\ Cardinality(Running) < MaxWorkers
    /\ pool_tasks' = [pool_tasks EXCEPT ![Head(work_queue)] =
                        [NoPoolTask EXCEPT !.st = "running", !.attempt = FetchStart.attempt]]
    /\ work_queue' = Tail(work_queue)
    /\ UNCHANGED <<pool_calls, nonPoolVars>>

\* whether the for loop of _fetch_with_retry goes round again from frame st
\* (main.py line 118: for attempt in range(max_retries))
LoopsAgain(st) == st.pc = "loop" /\ st.attempt < MaxRetries("main")

\* the frame of _fetch_with_retry in work item t after the GET of its next
\* iteration ended in outcome.  last_exception, which decides only what the
\* code after the loop raises into the except of _search_single_engine
\* (main.py line 288), is not followed
AfterGet(t, outcome) ==
    FetchIter("main", [FetchStart EXCEPT !.attempt = pool_tasks[t].attempt], outcome)

\* an iteration of the for loop of _fetch_with_retry (main.py lines 118-142)
\* that is followed by another: the GET returns or times out (timeout=5,
\* line 128)
PoolAttempt(t) ==
    /\ pool_tasks[t].st = "running"
    /\ \E outcome \in Outcomes :
          /\ LoopsAgain(AfterGet(t, outcome))
          /\ pool_tasks' = [pool_tasks EXCEPT ![t].attempt = AfterGet(t, outcome).attempt]
    /\ UNCHANGED <<pool_calls, work_queue, nonPoolVars>>

\* the search() call will not read its futures any more
LeftLoop(c) == pool_calls[c].pc # "collect"

\* the last iteration: the GET returns 200, or the loop is exhausted and the
\* code after it raises (main.py lines 144-147); _search_single_engine goes
\* to its return, a list (lines 279-291), the future is done and the worker
\* is free
PoolTaskEnd(t) ==
    /\ pool_tasks[t].st = "running"
    /\ \E outcome \in Outcomes :
          ~LoopsAgain(AfterGet(t, outcome))
    /\ pool_tasks' = [pool_tasks EXCEPT ![t] = [NoPoolTask EXCEPT !.st = "done"]]
    /\ UNCHANGED <<pool_calls, work_queue, nonPoolVars>>

\* the loop over as_completed(futures) takes a future that is done (main.py
\* lines 311-319): its list, n results long, is added, and the loop is left
\* when the quota is reached or every future was taken
PoolCollect(c) ==
    /\ pool_calls[c].pc = "collect"
    /\ \E t \in PoolTaskIds, n \in ResultCounts :
          /\ t[1] = c
          /\ pool_tasks[t].st = "done"
          /\ t \notin pool_calls[c].consumed
          /\ LET got == pool_calls[c].got + n
                 consumed == pool_calls[c].consumed \cup {t}
             IN pool_calls' = [pool_calls EXCEPT ![c] =
                   IF got >= Quota \/ Cardinality(consumed) = Len(SearchUrls)
                   THEN [NoPoolCall EXCEPT !.pc = "finish"]
                   ELSE [pc |-> "collect", got |-> got, consumed |-> consumed]]
    /\ UNCHANGED <<pool_tasks, work_queue, nonPoolVars>>

\* the code after the loop (main.py lines 321-331): rank, serialize, write
\* the cache and return, without waiting for the futures not taken;
\* redis_client.setex raises when the server does not answer (line 99)
PoolReturn(c) ==
    /\ pool_calls[c].pc = "finish"
    /\ pool_calls' = [pool_calls EXCEPT ![c].pc =
                        IF redis_client # None /\ ~redis_up THEN "raised" ELSE "returned"]
    /\ UNCHANGED <<pool_tasks, work_queue, nonPoolVars>>

SideParked == CategorizeParked /\ SuggestParked /\ ParseParked /\ PoolParked

(***************************************************************************)
(* The specifications                                                      *)
(***************************************************************************)
InitRank == impl \in Impls /\ RankInit /\ FetchParked /\ CacheParked /\ SearchParked /\ SideParked

NextRank == RankCall

SpecRank == InitRank /\ [][NextRank]_vars

InitFetch == impl \in Impls /\ FetchInit /\ RankParked /\ CacheParked /\ SearchParked /\ SideParked

NextFetch == FetchAttempt \/ FetchExhausted

SpecFetch == InitFetch /\ [][NextFetch]_vars

\* the cache methods exist in main.py only
InitCache == impl = "main" /\ CacheInit /\ RankParked /\ FetchParked /\ SearchParked /\ SideParked

NextCache ==
    \/ Tick
    \/ \E t \in Threads : GetCall(t)
    \/ \E t \in Threads : SaveCall(t)
    \/ \E t \in Threads : RedisGet(t)
    \/ \E t \in Threads : RedisSetex(t)
    \/ \E t \in Threads : Acquire(t)
    \/ \E t \in Threads : GetRead(t)
    \/ \E t \in Threads : GetDelete(t)
    \/ \E t \in Threads : SaveWrite(t)
    \/ \E t \in Threads : CacheReturn(t)

SpecCache == InitCache /\ [][NextCache]_vars

\* app.py has no Redis client
Init ==
    /\ impl \in Impls
    /\ StoreInit
    /\ redis_client = None => ~redis_up
    /\ impl = "app" => redis_client = None
    /\ th = <<>>
    /\ SearchInit
    /\ RankParked
    /\ FetchParked
    /\ SideParked

Next ==
    \/ Lapse
    \/ \E c \in Calls : SearchCall(c)
    \/ \E t \in TaskIds : TaskRun(t)
    \/ \E c \in Calls : CollectStart(c)
    \/ \E c \in Calls : Consume(c)
    \/ \E c \in Calls : Finish(c)
    \/ \E c \in Calls : AppFetch(c)
    \/ \E c \in Calls : AppFinish(c)

Spec == Init /\ [][Next]_vars

CoreParked == RankParked /\ FetchParked /\ CacheParked /\ SearchParked

InitCategorize ==
    /\ impl \in Impls
    /\ CategorizeInit
    /\ CoreParked /\ SuggestParked /\ ParseParked /\ PoolParked

NextCategorize == CategorizeCall

SpecCategorize == InitCategorize /\ [][NextCategorize]_vars

InitSuggest ==
    /\ impl \in Impls
    /\ SuggestInit
    /\ RankParked /\ FetchParked /\ SearchParked /\ CategorizeParked /\ ParseParked
    /\ PoolParked

NextSuggest == SuggestCall \/ SuggestLapse

SpecSuggest == InitSuggest /\ [][NextSuggest]_vars

InitParse ==
    /\ impl \in Impls
    /\ ParseInit
    /\ CoreParked /\ CategorizeParked /\ SuggestParked /\ PoolParked

NextParse == ParseCall

SpecParse == InitParse /\ [][NextParse]_vars

\* the executor under load.  redis_client and redis_up are as the process
\* found them; the cache content is not followed
InitPool ==
    /\ impl = "main"
    /\ redis_client \in {None, "client"}
    /\ redis_up \in BOOLEAN
    /\ redis_client = None => ~redis_up
    /\ redis_store = <<>>
    /\ in_memory_cache = <<>>
    /\ cache_lock = Unlocked
    /\ now = 0
    /\ last_save = <<>>
    /\ nsaves = 0
    /\ th = <<>>
    /\ PoolInit
    /\ RankParked /\ FetchParked /\ SearchParked
    /\ CategorizeParked /\ SuggestParked /\ ParseParked

NextPool ==
    \/ \E c \in PoolCalls : PoolSearch(c)
    \/ WorkerTake
    \/ \E t \in PoolTaskIds : PoolAttempt(t)
    \/ \E t \in PoolTaskIds : PoolTaskEnd(t)
    \/ \E c \in PoolCalls : PoolCollect(c)
    \/ \E c \in PoolCalls : PoolReturn(c)

\* a worker thread, once it has a work item, keeps running: each GET returns
\* or times out, and the sleeps are finite
WorkerRuns(t) == PoolAttempt(t) \/ PoolTaskEnd(t)

\* the request thread of a search() call keeps running
RequestRuns(c) == PoolCollect(c) \/ PoolReturn(c)

\* calls arrive as they please; a free worker takes queued work, and no
\* thread that can take a step is held back for ever
SpecPool ==
    /\ InitPool
    /\ [][NextPool]_vars
    /\ WF_vars(WorkerTake)
    /\ \A t \in PoolTaskIds : WF_vars(WorkerRuns(t))
    /\ \A c \in PoolCalls : WF_vars(RequestRuns(c))

\* the two users of the cache check, search() and get_suggestions(): a run
\* of search calls or a run of get_suggestions calls
InitCacheUsers == Init \/ InitSuggest

NextCacheUsers ==
    \/ calls # <<>> /\ Next
    \/ calls = <<>> /\ NextSuggest

SpecCacheUsers == InitCacheUsers /\ [][NextCacheUsers]_vars

(***************************************************************************)
(* Claims about _fetch_with_retry (SpecFetch)                              *)
(***************************************************************************)
FetchOver == f_state.pc \in {"returned", "raised"}

\* C1: when _fetch_with_retry has used up all max_retries attempts without a
\* 200, it returns None and raises nothing if every attempt ended in a non-200
\* status, and it raises only if some attempt ended in a network exception
C1_ExhaustedStatusesReturnNone ==
    (FetchOver /\ Len(f_log) = MaxRetries(impl) /\ \A i \in 1..Len(f_log) : f_log[i] # "200") =>
        /\ (\A i \in 1..Len(f_log) : f_log[i] # "exc") => (f_state.pc = "returned" /\ f_state.ret = None)
        /\ f_state.pc = "raised" => \E i \in 1..Len(f_log) : f_log[i] = "exc"

(***************************************************************************)
(* Claims about the in-process cache store (SpecCache)                     *)
(***************************************************************************)
InProcess == redis_client = None

\* what _get_from_cache(key) has to give at time t, from the history of saves
ExpectedGet(key, t) ==
    IF last_save[key] # NoSave /\ t < last_save[key].at + last_save[key].ttl
    THEN RetData(last_save[key].data)
    ELSE RetNone

\* thread t leaves the program point pc in this step
Leaves(t, pc) == th[t].pc = pc /\ th'[t].pc # pc

\* C3: on the in-process store a _get_from_cache(key) that reads the map
\* after the latest _save_to_cache(key, payload, ttl) and less than ttl
\* seconds after it returns that payload, and one that reads it once ttl
\* seconds have elapsed returns None
C3_CacheRoundTrip ==
    [][\A t \in Threads :
          /\ (InProcess /\ Leaves(t, "get_read")) =>
                IF ExpectedGet(th[t].key, now) # RetNone
                THEN th'[t].pc = "done" /\ th'[t].ret = ExpectedGet(th[t].key, now)
                ELSE th'[t].pc = "get_del" \/ (th'[t].pc = "done" /\ th'[t].ret = RetNone)
          /\ (InProcess /\ Leaves(t, "get_del")) => (th'[t].pc = "done" /\ th'[t].ret = RetNone)
      ]_vars

\* one get has returned the payload saved a tick earlier, and a later get of
\* the same key has returned None at the moment the ttl had elapsed
C3_Witness ==
    /\ InProcess
    /\ \E t, u \in Threads, k \in Keys :
          /\ th[t].pc = "done" /\ th[t].key = k /\ th[t].ret = RetData(<<"x">>)
          /\ th[u].pc = "done" /\ th[u].key = k /\ th[u].ret = RetNone
          /\ last_save[k].data = <<"x">> /\ last_save[k].at = 0
          /\ now = last_save[k].at + last_save[k].ttl
          /\ in_memory_cache[k] = NoEntry

InCritical(t) == th[t].pc \in {"get_read", "get_del", "save_write"}

\* while a thread is between its read and its delete or write, it holds the
\* lock, and a get about to delete still finds the entry it read
C8_State ==
    \A t \in Threads :
        /\ InCritical(t) => cache_lock = t
        /\ th[t].pc = "get_del" => in_memory_cache[th[t].key] = th[t].entry

\* the map changes only by a step of the thread that is inside get or save
C8_Step ==
    \A t \in Threads :
        InCritical(t) => (in_memory_cache' = in_memory_cache \/ th'[t] # th[t])

\* C8: on the in-process store each get (read, expiry check, delete) and
\* each save is atomic with respect to the others: only the thread inside
\* holds the lock, no other thread changes the map meanwhile, and a get
\* deletes only the expired entry it read, never one a save wrote since
C8_AtomicGetAndSave == [](InProcess => C8_State) /\ [][InProcess => C8_Step]_vars

\* a get has read an expired entry and is about to delete it while another
\* thread, saving to the same key, waits for the lock
C8_Witness ==
    /\ InProcess
    /\ \E t, u \in Threads :
          /\ th[t].pc = "get_del" /\ th[u].pc = "save" /\ th[u].key = th[t].key
          /\ cache_lock = t

(***************************************************************************)
(* Claims about _rank_results (SpecRank)                                   *)
(***************************************************************************)
RegularPositions(rs) == {i \in 1..Len(rs) : rs[i].type = "regular"}

\* C9: in the output of _rank_results the regular results are in
\* non-increasing score order, and two regular results of equal score are
\* in the same relative order as in the input
C9_StableDescending ==
    rk_pc = "ranked" =>
        \A i, j \in RegularPositions(rk_ranked) :
            i < j => /\ rk_ranked[i].score >= rk_ranked[j].score
                     /\ (rk_ranked[i].score = rk_ranked[j].score
                            => rk_ranked[i].id < rk_ranked[j].id)

\* a ranked list in which the sort moved a result forward and two results
\* that differ in content tie on score
C9_Witness ==
    /\ rk_pc = "ranked"
    /\ \E i, j \in RegularPositions(rk_ranked) :
          /\ i < j /\ rk_ranked[i].score = rk_ranked[j].score
          /\ rk_ranked[i].title # rk_ranked[j].title \/ rk_ranked[i].url # rk_ranked[j].url
    /\ \E i, j \in RegularPositions(rk_ranked) : i < j /\ rk_ranked[i].id > rk_ranked[j].id

\* C10: in the output of _rank_results every info_box record precedes every
\* regular record, and the info_box records are in their input order
C10_InfoBoxFirst ==
    rk_pc = "ranked" =>
        \A i, j \in 1..Len(rk_ranked) :
            /\ (rk_ranked[i].type = "info_box" /\ rk_ranked[j].type = "regular") => i < j
            /\ (rk_ranked[i].type = "info_box" /\ rk_ranked[j].type = "info_box" /\ i < j)
                  => rk_ranked[i].id < rk_ranked[j].id

\* an info box ranked ahead of a regular result that scores more than it
C10_Witness ==
    /\ rk_pc = "ranked"
    /\ \E i, j \in 1..Len(rk_ranked) :
          /\ rk_ranked[i].type = "info_box" /\ rk_ranked[j].type = "regular"
          /\ rk_ranked[j].score > rk_ranked[i].score
          /\ rk_ranked[j].id < rk_ranked[i].id

(***************************************************************************)
(* Claims about search() (Spec)                                            *)
(***************************************************************************)
TasksOf(c) == {t \in TaskIds : t[1] = c}

\* the call has submitted its tasks to the executor
Submitted(c) == \E t \in TasksOf(c) : tasks[t].st # "none"

RECURSIVE ResultsOf(_)
\* the results of the tasks ts, one task after the other
ResultsOf(ts) ==
    IF ts = <<>> THEN <<>> ELSE tasks[Head(ts)].result \o ResultsOf(Tail(ts))

IsPrefix(s, t) == Len(s) <= Len(t) /\ SubSeq(t, 1, Len(s)) = s

IsTask(x) == x[2] # 0

\* the tasks of call c in the order they completed
CompletionOrder(c) == SelectSeq(calls[c].completed, IsTask)

\* C2: search never raises to its caller: whatever the backends do it
\* returns a sequence, and when zero results were collected (all backends
\* failed) it returns the empty sequence
C2_SearchNeverRaises ==
    /\ [](\A c \in Calls :
            /\ calls[c].pc # "raised"
            /\ calls[c].pc = "returned" => calls[c].ret.kind = "data")
    /\ [][\A c \in Calls :
            (/\ \/ calls[c].pc = "finish" /\ calls[c].results = <<>>
                \/ calls[c].pc = "fetch"
             /\ calls'[c].pc \in {"returned", "raised"})
            => calls'[c].ret = RetData(<<>>)]_vars

\* C4: if a search has returned a non-empty sequence R and the cache entry
\* holding R is the one a search with the same (query, page) meets,
\* unexpired, at its cache check, then that search returns a sequence equal
\* to R through the hit branch: it submits no task and writes no entry
C4_CacheHitShortCircuits ==
    \A a, b \in Calls :
        (/\ a # b
         /\ calls[a].pc = "returned"
         /\ calls[a].ret.val # <<>>
         /\ calls[a].src # 0
         /\ calls[b].pc # "idle"
         /\ KeyOf(b) = KeyOf(a)
         /\ calls[b].saw = calls[a].src
         /\ calls[b].live)
        => /\ calls[b].pc = "returned"
           /\ calls[b].path = "hit"
           /\ calls[b].ret = calls[a].ret
           /\ ~Submitted(b)
           /\ written_by[KeyOf(b)] # b

\* a second search met the unexpired entry of a first, which had returned
\* results, and has returned
C4_Witness ==
    \E a, b \in Calls :
        /\ a # b
        /\ calls[a].pc = "returned" /\ calls[a].path = "miss"
        /\ Len(calls[a].ret.val) >= Quota
        /\ calls[b].pc = "returned" /\ calls[b].path = "hit"
        /\ KeyOf(b) = KeyOf(a)
        /\ calls[b].saw = a /\ calls[b].live

\* C5: after a search call that collected zero results, the cache holds no
\* entry for its (query, page) key that was written by this call
C5_WriteThroughOnlyOnSuccess ==
    \A c \in Calls :
        (calls[c].pc = "returned" /\ calls[c].path = "miss" /\ calls[c].ret.val = <<>>)
        => written_by[KeyOf(c)] # c

Collecting(c) == calls[c].pc \in {"collect", "finish"}

\* where in the completion history of call c its as_completed started
MarkIndex(c) ==
    CHOOSE i \in 1..Len(calls[c].completed) : calls[c].completed[i] = CollectMark(c)

\* the tasks that were complete when as_completed started
DoneAtStart(c) == {calls[c].completed[i] : i \in 1..(MarkIndex(c) - 1)}

\* the tasks that completed after as_completed started, in completion order
DoneSinceStart(c) ==
    SubSeq(calls[c].completed, MarkIndex(c) + 1, Len(calls[c].completed))

\* consumption follows completion
ConsumesInCompletionOrder(c) == IsPrefix(calls[c].consumed, CompletionOrder(c))

\* the tasks complete at the start are consumed first, whichever their
\* order; after them consumption follows completion
ConsumesInCompletionOrderSinceStart(c) ==
    LET cons == calls[c].consumed
        k == Cardinality({i \in 1..Len(cons) : cons[i] \in DoneAtStart(c)})
    IN /\ \A i \in 1..k : cons[i] \in DoneAtStart(c)
       /\ k < Len(cons) => k = Cardinality(DoneAtStart(c))
       /\ IsPrefix(SubSeq(cons, k + 1, Len(cons)), DoneSinceStart(c))

\* consuming goes on while the total is below the quota and tasks are left,
\* and no longer
StopsAtQuota(c) ==
    LET cons == calls[c].consumed
    IN /\ \A k \in 0..(Len(cons) - 1) : Len(ResultsOf(SubSeq(cons, 1, k))) < Quota
       /\ calls[c].pc = "collect" =>
             /\ Len(calls[c].results) < Quota
             /\ Len(cons) < Len(SearchUrls)
       /\ calls[c].pc = "finish" =>
             \/ Len(calls[c].results) >= Quota
             \/ {cons[i] : i \in 1..Len(cons)} = TasksOf(c)

\* the collected results are those of the consumed tasks, all of them
HoldsConsumed(c) == calls[c].results = ResultsOf(calls[c].consumed)

\* what is returned is the ranking of the results of the consumed tasks, and
\* it stays what it is whatever completes later
ReturnsConsumed(c) ==
    /\ (calls[c].pc = "finish" /\ calls'[c].pc = "returned") =>
          calls'[c].ret.val =
             Serialize(RankResults("main", calls[c].query,
                                   ResultsOf(calls[c].consumed), Today))
    /\ calls[c].pc = "returned" => calls'[c] = calls[c]

\* C6 as stated: search consumes its tasks in completion order and stops as
\* soon as the running total is >= 5; what it ranks and returns is exactly
\* the results of the tasks consumed, none truncated, and nothing of a task
\* not consumed, even if that task completes later
C6_QuotaShortCircuit ==
    /\ [](\A c \in Calls : Collecting(c) =>
             ConsumesInCompletionOrder(c) /\ StopsAtQuota(c) /\ HoldsConsumed(c))
    /\ [][\A c \in Calls : ReturnsConsumed(c)]_vars

\* C6 amended: the tasks already complete when as_completed starts are
\* consumed first, in no particular order, and the tasks completing after
\* that in completion order; consuming stops as soon as the running total is
\* >= 5; what is ranked and returned is exactly the results of the tasks
\* consumed, none truncated, and nothing of a task not consumed, even if that
\* task completes later
C6_QuotaShortCircuitSinceStart ==
    /\ [](\A c \in Calls : Collecting(c) =>
             ConsumesInCompletionOrderSinceStart(c) /\ StopsAtQuota(c) /\ HoldsConsumed(c))
    /\ [][\A c \in Calls : ReturnsConsumed(c)]_vars

\* the first task consumed reached the quota while the other, complete with
\* results of its own, was left unconsumed
C6_Witness ==
    \E c \in Calls, t \in TaskIds :
        /\ calls[c].pc = "finish"
        /\ Len(calls[c].consumed) = 1
        /\ Len(calls[c].results) >= Quota
        /\ t \in TasksOf(c) /\ t # calls[c].consumed[1]
        /\ tasks[t].st = "done" /\ tasks[t].result # <<>>

\* C7: of two calls with the same (query, page) that met an empty cache and
\* are in flight together, only one has fanned out to the backends
C7_ConcurrentIdenticalDeduplicated ==
    \A a, b \in Calls :
        (/\ a # b
         /\ KeyOf(a) = KeyOf(b)
         /\ InFlight(a) /\ InFlight(b)
         /\ calls[a].saw = 0 /\ calls[b].saw = 0)
        => ~(Submitted(a) /\ Submitted(b))

(***************************************************************************)
(* Claims about _categorize_result (SpecCategorize)                        *)
(***************************************************************************)
\* the fixed order of the categories
CategoryOrder ==
    <<"news", "shopping", "social", "video", "academic", "official", "forums", "tech">>

\* the keywords a program gives a category (none when it lacks the category)
KeywordsOf(im, cat) ==
    UNION {{Categories(im)[i].keywords[j] : j \in 1..Len(Categories(im)[i].keywords)} :
           i \in {i \in 1..Len(Categories(im)) : Categories(im)[i].name = cat}}

\* a keyword of the category is a substring of the lowercased domain or of the
\* lowercased text of the title and the snippet
Matches(im, cat, args) ==
    \E kw \in KeywordsOf(im, cat) :
        \/ IsSubstr(kw, Lower(Netloc(args.url)))
        \/ IsSubstr(kw, Lower(args.title))
        \/ IsSubstr(kw, Lower(args.snippet))

\* C11: _categorize_result returns the first category, in the order news,
\* shopping, social, video, academic, official, forums, tech, one of whose
\* keywords is a substring of the lowercased domain or of the lowercased
\* title+snippet text, and general when none matches; the returned value is
\* always one of these nine labels.
C11_FirstMatchingCategory ==
    cz_pc = "returned" =>
        /\ cz_ret \in {CategoryOrder[i] : i \in 1..Len(CategoryOrder)} \cup {"general"}
        /\ \A i \in 1..Len(CategoryOrder) :
              cz_ret = CategoryOrder[i] <=>
                  /\ Matches(impl, CategoryOrder[i], cz_args)
                  /\ \A j \in 1..(i - 1) : ~Matches(impl, CategoryOrder[j], cz_args)
        /\ cz_ret = "general" <=>
              \A i \in 1..Len(CategoryOrder) : ~Matches(impl, CategoryOrder[i], cz_args)

\* the same statement for main.py alone
C11_MainOnly == impl = "main" => C11_FirstMatchingCategory

(***************************************************************************)
(* Claims about get_suggestions (SpecSuggest)                              *)
(***************************************************************************)
\* C12: get_suggestions(query) with a query shorter than 2 characters (the
\* empty query included) returns the empty sequence at once: it issues no
\* HTTP request, reads no cache entry and writes no cache entry.
C12_ShortQueryNoEffects ==
    (sg.n > 0 /\ Len(sg.query) < 2) => (sg.ret = RetData(<<>>) /\ sg.effects = <<>>)

\* the same statement for main.py alone
C12_MainOnly == impl = "main" => C12_ShortQueryNoEffects

(***************************************************************************)
(* More claims about _fetch_with_retry (SpecFetch)                         *)
(***************************************************************************)
\* the attempts that ended in status 200
Successes == {i \in 1..Len(f_log) : f_log[i] = "200"}

\* min(index of the first 200 attempt, max_retries)
ExpectedAttempts ==
    IF Successes = {} THEN MaxRetries(impl)
    ELSE CHOOSE i \in Successes : \A j \in Successes : i <= j

\* never more than max_retries attempts; a 200 is the last attempt made and
\* its response is what the call returns; a call that is over has made
\* min(index of the first 200, max_retries) attempts
C13_State ==
    /\ Len(f_log) <= MaxRetries(impl)
    /\ \A i \in Successes :
          i = Len(f_log) /\ f_state.pc = "returned" /\ f_state.ret = "response"
    /\ FetchOver => Len(f_log) = ExpectedAttempts

\* a GET is issued only while the call is running, one per step
C13_Step ==
    f_log' # f_log => (~FetchOver /\ Len(f_log') = Len(f_log) + 1)

\* C13: _fetch_with_retry issues its GETs one after another, returns the
\* response of the first attempt that yields status 200 without making any
\* further attempt, and never makes more than max_retries attempts: the
\* number of attempts is min(index of the first 200 attempt, max_retries).
C13_StopsAtFirst200 == []C13_State /\ [][C13_Step]_vars

\* a first attempt that fails, then a 200 that ends the call
C13_Witness ==
    /\ f_state.pc = "returned"
    /\ f_state.ret = "response"
    /\ Len(f_log) = 2
    /\ f_log[1] # "200"
    /\ f_log[2] = "200"

(***************************************************************************)
(* More claims about the cache store (SpecCache)                           *)
(***************************************************************************)
\* C14: when the networked store is unreachable at startup the process falls
\* back for good to the in-process store: every later cache get and save uses
\* the in-process store only, no cache operation fails because the networked
\* store is unreachable, and the networked store is never tried again.
C14_FallsBackToInProcess ==
    ~redis_up =>
        \A t \in Threads :
            /\ th[t].ret # RetRaise("ConnectionError")
            /\ th[t].pc \in {"get", "save"} => redis_client = None

(***************************************************************************)
(* Claims about _parse_results (SpecParse)                                 *)
(***************************************************************************)
\* the containers of the page
DivIndexes == 1..Len(pr_html.divs)

\* the records returned for the i-th container
RecordsOf(i) ==
    {j \in 1..Len(pr_ret.val) : pr_ret.val[j].type = "regular" /\ pr_ret.val[j].id = i}

\* the container has a heading and a link with an href
HasHeadingAndHref(div) == div.heading # NoNode /\ div.href # NoNode /\ div.href[1] # <<>>

\* C15: a container with a heading and an href but without a snippet node (or
\* with an empty snippet) is not rejected: it yields a record whose snippet is
\* the empty string.  Only a missing heading or a missing href rejects a
\* container.
C15_AbsentSnippetTolerated ==
    (pr_pc = "over" /\ pr_ret.kind = "data") =>
        \A i \in DivIndexes :
            LET div == pr_html.divs[i]
            IN /\ (HasHeadingAndHref(div) /\ div.snippet = NoNode /\ ~div.fails) =>
                     \E j \in RecordsOf(i) : pr_ret.val[j].snippet = <<>>
               /\ (RecordsOf(i) = {} /\ ~div.fails) => ~HasHeadingAndHref(div)

\* the same statement for app.py alone
C15_AppOnly == impl = "app" => C15_AbsentSnippetTolerated

\* the page made of the i-th container alone
Alone(i) == [soup_ok |-> TRUE, info_box |-> "none", divs |-> <<pr_html.divs[i]>>]

\* the container is neither rejected nor failing: parsed alone it gives a record
Survives(i) == ParseResults(impl, Alone(i)).val # <<>>

\* the returned records are those of the surviving containers, one each, equal
\* to the record the container gives alone, in document order, after the info
\* box when there is one
C16_Isolated ==
    /\ \A i \in DivIndexes : Cardinality(RecordsOf(i)) = (IF Survives(i) THEN 1 ELSE 0)
    /\ \A i \in DivIndexes : pr_html.divs[i].fails => ~Survives(i)
    /\ \A j \in 1..Len(pr_ret.val) :
          \/ j = 1 /\ pr_ret.val[j].type = "info_box" /\ pr_html.info_box = "found"
          \/ /\ pr_ret.val[j].type = "regular"
             /\ pr_ret.val[j].id \in DivIndexes
             /\ [pr_ret.val[j] EXCEPT !.id = 1] = ParseResults(impl, Alone(pr_ret.val[j].id)).val[1]
    /\ \A j, k \in 1..Len(pr_ret.val) :
          (j < k /\ pr_ret.val[j].type = "regular") =>
              (pr_ret.val[k].type = "regular" /\ pr_ret.val[j].id < pr_ret.val[k].id)
    /\ (impl = "app" /\ pr_html.info_box = "found") =>
          (pr_ret.val # <<>> /\ pr_ret.val[1].type = "info_box")

\* C16: _parse_results returns exactly the records of the containers that
\* are neither rejected nor raising, in document order (the info box first
\* when present); a failing or rejected container removes only its own
\* record; _parse_results itself never raises.
C16_PartialFailureIsolation ==
    pr_pc = "over" => (pr_ret.kind = "data" /\ C16_Isolated)

\* the isolation alone, for the calls that return
C16_IsolationWhenReturning ==
    (pr_pc = "over" /\ pr_ret.kind = "data") => C16_Isolated

\* a failing container between the info box and a surviving container
C16_IsolationWitness ==
    /\ pr_pc = "over"
    /\ pr_ret.kind = "data"
    /\ Len(pr_html.divs) = 2
    /\ pr_html.divs[1].fails
    /\ Len(pr_ret.val) = 2
    /\ pr_ret.val[1].type = "info_box"
    /\ pr_ret.val[2].id = 2

(***************************************************************************)
(* More claims about _rank_results (SpecRank)                              *)
(***************************************************************************)
\* the title of a contains the whole query, case-insensitively
TitleHasQuery(a) == IsSubstr(Lower(rk_query), Lower(a.title))

\* neither the title nor the snippet of b contains a term of the query
NoTermIn(b) ==
    \A k \in 1..Len(Split(Lower(rk_query))) :
        /\ ~IsSubstr(Split(Lower(rk_query))[k], Lower(b.title))
        /\ ~IsSubstr(Split(Lower(rk_query))[k], Lower(b.snippet))

\* two regular results identical in url, date and category, the first with
\* the whole query in its title, the second without any query term
MatchBeatsNoMatch(a, b) ==
    /\ a.type = "regular" /\ b.type = "regular"
    /\ a.url = b.url /\ a.date = b.date /\ a.category = b.category
    /\ TitleHasQuery(a)
    /\ NoTermIn(b)

AllConsumed(c) ==
    \A t \in TasksOf(c) :
        tasks[t].st # "none" =>
            /\ tasks[t].st = "done"
            /\ \E i \in 1..Len(calls[c].consumed) : calls[c].consumed[i] = t

\* C18: on a cache miss search does not return early: when it leaves the
\* collecting loop either the running total of results is >= 5 or every
\* submitted task has completed and been consumed; it never returns fewer
\* than 5 results while a backend task is still outstanding.
C18_NoEarlyReturn ==
    \A c \in Calls :
        /\ calls[c].pc = "finish" => (Len(calls[c].results) >= Quota \/ AllConsumed(c))
        /\ (calls[c].pc = "returned" /\ calls[c].path = "miss"
               /\ Len(calls[c].ret.val) < Quota) =>
              \A t \in TasksOf(c) : tasks[t].st # "running"

\* a search that waited for both tasks and left the loop below the quota
C18_Witness ==
    \E c \in Calls :
        /\ calls[c].pc = "finish"
        /\ calls[c].results # <<>>
        /\ Len(calls[c].results) < Quota
        /\ Submitted(c)
        /\ AllConsumed(c)

(***************************************************************************)
(* The frame of the in-process store (SpecCache)                           *)
(***************************************************************************)
\* the entry of key k is there and has expired
Expired(k) == in_memory_cache[k] # NoEntry /\ now >= in_memory_cache[k].expire_time

\* an entry changes only by the step of a thread working on that key: a get
\* that removes it, expired, or a save that writes it
C19_OnlyOwnKey ==
    \A k \in Keys :
        in_memory_cache'[k] # in_memory_cache[k] =>
            \E t \in Threads :
                /\ th[t].key = k
                /\ th'[t] # th[t]
                /\ \/ /\ th[t].op = "get"
                      /\ Expired(k)
                      /\ in_memory_cache'[k] = NoEntry
                      /\ th'[t].ret = RetNone
                   \/ /\ th[t].op = "save"
                      /\ in_memory_cache'[k] =
                            [data |-> th[t].data, expire_time |-> now + th[t].ttl]

\* the step that ends a get under the lock: an expired entry is removed, it
\* alone, and None is returned; otherwise the whole map is left as it is
C19_GetEnds ==
    \A t \in Threads :
        (th[t].op = "get" /\ th[t].pc \in {"get_read", "get_del"} /\ th'[t].pc = "done") =>
            IF Expired(th[t].key)
            THEN /\ in_memory_cache' = [in_memory_cache EXCEPT ![th[t].key] = NoEntry]
                 /\ th'[t].ret = RetNone
            ELSE in_memory_cache' = in_memory_cache

\* C19: _get_from_cache(key) on an expired entry removes exactly that entry
\* and returns absent; on an unexpired or absent key it leaves the whole map
\* unchanged; it never modifies the entry of another key, and no operation
\* other than a get of that key or a set of that key removes or changes an
\* entry.
C19_GetFrame ==
    /\ [][C19_OnlyOwnKey /\ C19_GetEnds]_vars
    /\ [](\A t \in Threads :
            (th[t].op = "get" /\ th[t].pc = "get_del") => Expired(th[t].key))

\* a get has removed the expired entry of its key and the other key's entry
\* is still there
C19_Witness ==
    \E t \in Threads :
        /\ th[t].op = "get" /\ th[t].pc = "done" /\ th[t].ret = RetNone
        /\ in_memory_cache[th[t].key] = NoEntry
        /\ last_save[th[t].key] # NoSave
        /\ \E k \in Keys : k # th[t].key /\ in_memory_cache[k] # NoEntry

(***************************************************************************)
(* The score of info boxes (SpecRank)                                      *)
(***************************************************************************)
\* C20: after _rank_results the score of every info_box record is greater
\* than or equal to the score of every regular record of the same result
\* set, for every query and every set of regular results.
C20_InfoBoxScoreIsMaximal ==
    rk_pc = "ranked" =>
        \A i, j \in 1..Len(rk_ranked) :
            (rk_ranked[i].type = "info_box" /\ rk_ranked[j].type = "regular") =>
                rk_ranked[i].score >= rk_ranked[j].score

\* C21: _search_single_engine never raises: whatever its fetch and parse do
\* it returns a list.  So in search every future.result() returns normally,
\* the errors list is empty at every point, and the branch that returns []
\* without writing the cache (results empty and errors not) is unreachable.
C21_SingleEngineNeverRaises ==
    /\ \A t \in TaskIds : tasks[t].exc = None
    /\ \A c \in Calls :
          /\ calls[c].errors = <<>>
          /\ calls[c].pc = "finish" => SavesResults(calls[c].results, calls[c].errors)

\* both engines of a search gave nothing (a fetch that raised, an empty
\* page): both futures held [], were read, and the loop is left
C21_Witness ==
    \E c \in Calls :
        /\ calls[c].pc = "finish"
        /\ calls[c].results = <<>>
        /\ Len(calls[c].consumed) = Len(SearchUrls)
        /\ \A t \in TasksOf(c) :
              tasks[t].st = "done" /\ tasks[t].exc = None /\ tasks[t].result = <<>>

(***************************************************************************)
(* The frame of _rank_results (SpecRank)                                   *)
(***************************************************************************)
\* output is input rearranged: as many records, each input object (told by
\* its id, its position in the input) exactly once, and each equal to the
\* input object in every field but score
IsPermutationUpToScore(input, output) ==
    /\ Len(output) = Len(input)
    /\ \A i \in 1..Len(input) :
          Cardinality({j \in 1..Len(output) : output[j].id = i}) = 1
    /\ \A j \in 1..Len(output) :
          /\ output[j].id \in 1..Len(input)
          /\ [output[j] EXCEPT !.score = 0] = [input[output[j].id] EXCEPT !.score = 0]

\* the step of a call: its return value against its argument
C22_Step ==
    (rk_pc = "call" /\ rk_pc' = "ranked") =>
        /\ IsPermutationUpToScore(rk_results, rk_ranked')
        /\ IsPermutationUpToScore(rk_results, rk_results')

\* C22: _rank_results returns a permutation of its input: every input record
\* appears exactly once in the output, no record is added, dropped or
\* duplicated, and the only field of a record that ranking changes is score.
C22_RankIsPermutation == [][C22_Step]_vars

\* three results came back in another order, with scores assigned
C22_Witness ==
    /\ rk_pc = "ranked"
    /\ Len(rk_ranked) = MaxResults
    /\ \E j \in 1..Len(rk_ranked) : rk_ranked[j].id # j
    /\ \E j \in 1..Len(rk_ranked) : rk_ranked[j].score # 0
    /\ \E i, j \in 1..Len(rk_ranked) :
          i # j /\ [rk_ranked[i] EXCEPT !.id = 0] = [rk_ranked[j] EXCEPT !.id = 0]

(***************************************************************************)
(* Empty payloads in the cache of main.py (SpecCacheUsers)                 *)
(***************************************************************************)
\* search b met, unexpired, the entry that search a wrote with an empty
\* payload for the same (query, page)
MetEmptyEntry(a, b) ==
    /\ a # b
    /\ calls[a].pc = "returned"
    /\ calls[a].ret = RetData(<<>>)
    /\ calls[a].src = a
    /\ calls[b].pc # "idle"
    /\ KeyOf(b) = KeyOf(a)
    /\ calls[b].saw = a
    /\ calls[b].live

\* such a search takes the miss path and submits its tasks
C23_SearchPart ==
    (impl = "main" /\ calls # <<>>) =>
        \A a, b \in Calls :
            MetEmptyEntry(a, b) => (calls[b].path = "miss" /\ Submitted(b))

\* the store holds an unexpired entry with an empty list for the key
HoldsEmptyList(key) ==
    IF redis_client # None
    THEN /\ redis_up
         /\ redis_store[key] # NoEntry
         /\ now < redis_store[key].expire_time
         /\ redis_store[key].data = JsonDumps(<<>>)
    ELSE /\ in_memory_cache[key] # NoEntry
         /\ now < in_memory_cache[key].expire_time
         /\ in_memory_cache[key].data = <<>>

\* a get_suggestions call that finds such an entry issues its GETs
C23_SuggestStep ==
    (impl = "main" /\ sg'.n # sg.n /\ ~TooShort(sg'.query)
       /\ HoldsEmptyList(SuggestKey(sg'.query))) =>
        \E i \in 1..Len(sg'.effects) : sg'.effects[i] = "GET"

\* C23: an empty cached payload is never served as a hit: when the cache
\* holds an unexpired entry for (query, page) whose payload is the empty
\* sequence, the next search with that (query, page) takes the miss path and
\* fans out to the backends again; likewise get_suggestions fetches again
\* when the cached suggestion list is empty.
C23_EmptyPayloadIsAMiss == []C23_SearchPart /\ [][C23_SuggestStep]_vars

\* a second search met the unexpired empty entry of a first and fanned out
C23_Witness ==
    /\ impl = "main"
    /\ calls # <<>>
    /\ \E a, b \in Calls :
          /\ MetEmptyEntry(a, b)
          /\ \A t \in TasksOf(b) : tasks[t].st # "none"

\* a second get_suggestions call met the unexpired empty list of a first,
\* fetched again and failed, so that the empty list is still there
C23_SuggestWitness ==
    /\ impl = "main"
    /\ calls = <<>>
    /\ sg.n = 2
    /\ sg.effects = <<"cache_get", "GET">>
    /\ HoldsEmptyList(SuggestKey(sg.query))

(***************************************************************************)
(* Termination of search() on the shared executor (SpecPool)               *)
(***************************************************************************)
\* a running work item has issued fewer than max_retries GETs, and the GET
\* that would be the max_retries-th is its last
C24_AtMostMaxRetries ==
    \A t \in PoolTaskIds :
        pool_tasks[t].st = "running" =>
            /\ pool_tasks[t].attempt < MaxRetries("main")
            /\ \A outcome \in Outcomes :
                  pool_tasks[t].attempt = MaxRetries("main") - 1 =>
                      ~LoopsAgain(AfterGet(t, outcome))

\* every submitted work item, queued or running, awaited or abandoned by its
\* call, completes
C24_TasksComplete ==
    \A t \in PoolTaskIds :
        (pool_tasks[t].st \in {"queued", "running"}) ~> (pool_tasks[t].st = "done")

\* every search call that was made is over in the end, by a return or by an
\* exception
C24_CallsEnd == \A c \in PoolCalls : (pool_calls[c].pc # "idle") ~> PoolOver(c)

\* every search call that collects leaves the loop
C24_LeavesCollect ==
    \A c \in PoolCalls : (pool_calls[c].pc = "collect") ~> LeftLoop(c)

\* the part that holds: work items complete within max_retries GETs, calls
\* leave Collect and are over
C24_Terminates ==
    []C24_AtMostMaxRetries /\ C24_TasksComplete /\ C24_LeavesCollect /\ C24_CallsEnd

\* C24: every search call eventually returns: the GETs returning or timing
\* out and the worker pool scheduled fairly, for any number of concurrent
\* search calls sharing the 5-worker pool (tasks abandoned by earlier calls
\* that reached the quota, still running or queued, included), each
\* submitted task completes after at most max_retries attempts and each
\* search call leaves Collect and returns.
C24_EverySearchReturns ==
    /\ []C24_AtMostMaxRetries
    /\ C24_TasksComplete
    /\ C24_LeavesCollect
    /\ \A c \in PoolCalls : (pool_calls[c].pc # "idle") ~> (pool_calls[c].pc = "returned")

\* a work item waits in the queue, the five workers busy
C24_QueuedBehindFive == work_queue # <<>> /\ Cardinality(Running) = MaxWorkers

\* a work item runs on after its call returned on the quota, while another
\* call's work item waits in the queue
C24_AbandonedRunning ==
    /\ work_queue # <<>>
    /\ \E t \in Running : pool_calls[t[1]].pc = "returned"

====
